---- MODULE Spec2Model ----
(***************************************************************************)
(* Model of the font-upload action of app/routes/app._index.tsx (the       *)
(* "upload a font and apply checkout branding" pipeline).                  *)
(*                                                                         *)
(* One invocation of `action` is a sequential program.  Every await on a   *)
(* collaborator (authentication, form parsing, the five GraphQL calls and  *)
(* their JSON decoding, the upload fetch and the reading of its body) is   *)
(* a step whose outcome the environment picks: a response drawn from a     *)
(* small set, or a thrown value.  `calls` is the log of collaborator calls *)
(* in the vocabulary of the specification's external interface.            *)
(***************************************************************************)
EXTENDS Integers, Sequences, FiniteSets, TLC

VARIABLES
    pc,                   \* position of the invocation in `action`
    fontFile,             \* formData.get("fontFile"): <<>> (null) or <<[name |-> ...]>>
    stagedUploadJson,     \* decoded response of stagedUploadsCreate
    uploadFormData,       \* parts of the multipart body, in append order
    uploadResponse,       \* response of the upload fetch
    fileCreateJson,       \* decoded response of fileCreate
    fileReady,            \* the poll loop's flag
    fileId,               \* the id the poll loop queries
    attempts,             \* the poll loop's counter
    fileNode,             \* data.node of the last status query
    checkoutProfilesJson, \* decoded response of checkoutProfiles
    brandingVariables,    \* variables of the checkoutBrandingUpsert call
    brandingUpsertJson,   \* decoded response of checkoutBrandingUpsert
    returned,             \* <<>> while running, <<result>> once `action` returned
    escaped,              \* TRUE iff an exception left `action`
    thrown,               \* <<>>, or <<error>>: the value a collaborator threw
    calls,                \* log of collaborator calls, oldest first
    allPending,           \* history: every status query so far reported PENDING
    readyIds,             \* history: ids for which a status query reported READY
    queriedIds            \* history: ids the status queries were issued for

\* two invocations of `action` running at once against one platform
VARIABLES
    invocations,          \* the locals of each invocation
    issuedTargets,        \* platform: number of upload targets issued so far
    storedFiles           \* platform: number of files created so far

\* the loader of the app index route, run by concurrent requests of one shop
VARIABLES
    loaders,              \* the locals of each loader run
    shopifyFunctions,     \* platform: the deployed functions of the app
    automaticDiscounts,   \* platform: the automatic discounts of the shop
    createdDiscounts      \* history: discounts the create mutation added

\* the discount function, run by the platform on a cart
VARIABLES
    input,                \* the RunInput the platform passes to the function
    output                \* <<>>, or <<result>> once the function has returned

\* the storefront raffle modal, its proxy endpoint and the cart
VARIABLES
    state,                \* the script's state object
    sessionStorage,       \* the raffle_discount entry: <<>> or <<string>>
    shownState,           \* the view showState made visible last, "none" before
    discountValue,        \* textContent of #raffle-discount-value: <<>> or <<string>>
    loadingClass,         \* the try-luck button carries the loading class
    runs,                 \* the tryLuck runs started so far, oldest first
    requests,             \* history: the requests the script has sent
    lastResponse,         \* history: the response delivered to the script last
    cart,                 \* platform: the cart's raffle_discount_amount, <<>> or <<string>>
    tryLuckCalls          \* history: number of calls of tryLuck

\* the checkout age-verification extension (part_003)
VARIABLES
    instructions,         \* shopify.instructions.value.attributes
    clock,                \* the buyer's clock: today's local date, the time zone's side of UTC
    checkout,             \* the extension's state: dateOfBirth, validationError
    attributeChanges,     \* the calls of applyAttributeChange, in flight or done
    attributes,           \* the cart attribute date_of_birth, <<>> when absent
    intercepted           \* the last call of the buyer-journey intercept and its result

\* the admin date-of-birth block (BlockExtension.jsx)
VARIABLES
    selected,             \* shopify.data.selected: the orders the page has selected
    block,                \* the block's state: loading, submitting, dateOfBirth, isVerified, error
    effect,               \* position of the mount effect: pending, await, done
    fetched,              \* history: what fetchOrderMetafield came back with
    submits,              \* the runs of handleSubmit, oldest first
    metafield             \* platform: the order's date_of_birth metafield, <<>> when unset

uploadVars == <<pc, fontFile, stagedUploadJson, uploadFormData, uploadResponse,
          fileCreateJson, fileReady, fileId, attempts, fileNode,
          checkoutProfilesJson, brandingVariables, brandingUpsertJson,
          returned, escaped, thrown, calls, allPending, readyIds,
          queriedIds>>
concurrentVars == <<invocations, issuedTargets, storedFiles>>
loaderVars == <<loaders, shopifyFunctions, automaticDiscounts, createdDiscounts>>
functionVars == <<input, output>>
raffleVars == <<state, sessionStorage, shownState, discountValue, loadingClass, runs,
    requests, lastResponse, cart, tryLuckCalls>>
ageVars == <<instructions, clock, checkout, attributeChanges,
    attributes, intercepted>>
adminVars == <<selected, block, effect, fetched, submits, metafield>>

vars == <<uploadVars, concurrentVars, loaderVars, functionVars,
          raffleVars, ageVars, adminVars>>

\* the programs of the repository share no variable: a step of the programs
\* named in `programs` leaves the variables of all the others alone
Only(programs) ==
    /\ IF "upload" \in programs THEN TRUE ELSE UNCHANGED uploadVars
    /\ IF "concurrent" \in programs THEN TRUE ELSE UNCHANGED concurrentVars
    /\ IF "loader" \in programs THEN TRUE ELSE UNCHANGED loaderVars
    /\ IF "function" \in programs THEN TRUE ELSE UNCHANGED functionVars
    /\ IF "raffle" \in programs THEN TRUE ELSE UNCHANGED raffleVars
    /\ IF "age" \in programs THEN TRUE ELSE UNCHANGED ageVars
    /\ IF "admin" \in programs THEN TRUE ELSE UNCHANGED adminVars

-----------------------------------------------------------------------------
(* Bounds of the model.                                                    *)

\* longest userErrors list a GraphQL response carries
MaxUserErrors == 2

-----------------------------------------------------------------------------
(* Values.                                                                 *)

\* JavaScript's undefined, where a string is expected
Undefined == "undefined"

\* File names are sequences of characters, so that endsWith and
\* toLowerCase are computed and not assumed.
Name_a_woff2     == <<"a", ".", "w", "o", "f", "f", "2">>
Name_a_woff      == <<"a", ".", "w", "o", "f", "f">>
Name_A_WOFF      == <<"A", ".", "W", "O", "F", "F">>
Name_a_ttf       == <<"a", ".", "t", "t", "f">>
Name_a_woff_ttf  == <<"a", ".", "w", "o", "f", "f", ".", "t", "t", "f">>
Name_woff        == <<"w", "o", "f", "f">>
Name_a_woff2_a   == <<"a", ".", "w", "o", "f", "f", "2", "a">>
Name_empty       == <<>>

FileNames == {Name_a_woff2, Name_a_woff, Name_A_WOFF, Name_a_ttf,
              Name_a_woff_ttf, Name_woff, Name_a_woff2_a, Name_empty}

\* what formData.get("fontFile") can be: null, or a File
FontFiles == {<<>>} \cup {<<[name |-> n]>> : n \in FileNames}

\* values a collaborator can throw: an Error with a message, or a value that
\* is no Error (authenticate.admin throws a Response to redirect)
Thrown == {[isError |-> TRUE, message |-> "fetch failed"],
           [isError |-> FALSE, message |-> Undefined]}

\* messages of the platform's userErrors
Messages == {"invalid", "too large"}

RECURSIVE SeqsUpTo(_, _)
SeqsUpTo(S, n) ==
    IF n = 0 THEN {<<>>}
    ELSE LET shorter == SeqsUpTo(S, n - 1)
         IN  shorter \cup {Append(s, x) : s \in {t \in shorter : Len(t) = n - 1}, x \in S}

UserErrorLists == SeqsUpTo(Messages, MaxUserErrors)

-----------------------------------------------------------------------------
(* Pure helpers of the action.                                             *)

\* String.prototype.toLowerCase on one character of the alphabet used here
LowerChar(c) ==
    CASE c = "A" -> "a"
      [] c = "W" -> "w"
      [] c = "O" -> "o"
      [] c = "F" -> "f"
      [] c = "T" -> "t"
      [] c = "R" -> "r"
      [] c = "L" -> "l"
      [] c = "E" -> "e"
      [] OTHER -> c

\* line 419: fontFile.name.toLowerCase()
ToLowerCase(name) == [i \in 1..Len(name) |-> LowerChar(name[i])]

\* String.prototype.endsWith
EndsWith(name, suffix) ==
    /\ Len(suffix) <= Len(name)
    /\ SubSeq(name, Len(name) - Len(suffix) + 1, Len(name)) = suffix

ExtWoff  == <<".", "w", "o", "f", "f">>
ExtWoff2 == <<".", "w", "o", "f", "f", "2">>

\* line 420, negated: the extension test on the lower-cased name
IsAllowedTypeNoDot(fileName) ==
    EndsWith(fileName, Tail(ExtWoff)) \/ EndsWith(fileName, Tail(ExtWoff2))
IsAllowedType(fileName) ==
    EndsWith(fileName, ExtWoff) \/ EndsWith(fileName, ExtWoff2)

\* line 429
MimeType(fileName) ==
    IF EndsWith(fileName, ExtWoff2) THEN "font/woff2" ELSE "font/woff"

\* Array.prototype.join over strings
RECURSIVE Join(_, _)
Join(msgs, sep) ==
    IF Len(msgs) = 0 THEN ""
    ELSE IF Len(msgs) = 1 THEN msgs[1]
    ELSE msgs[1] \o sep \o Join(Tail(msgs), sep)

\* JavaScript truthiness of an optional string
Falsy(s) == s = Undefined \/ s = ""

\* Response.ok of fetch: the status is in the range 200-299
ResponseOkBelow400(status) == status >= 200 /\ status < 400
ResponseOk(status) == status >= 200 /\ status <= 299

\* line 579: const maxAttempts = 30
maxAttempts == 30

-----------------------------------------------------------------------------
(* Results of the action (ActionResponse, lines 382-386).                  *)

Failure(message, error) ==
    [success |-> FALSE, message |-> message, error |-> error]

NoFileResult      == Failure("No font file provided", "Please upload a font file")
InvalidTypeResult == Failure("Invalid file type", "Only .woff and .woff2 files are allowed")
NoTargetResult    == Failure("No upload target returned", "Failed to get upload URL")
NoFileIdResult    == Failure("No file created", "Failed to create file in Shopify")
ProcessingFailedResult ==
    Failure("File processing failed", "Shopify could not process the font file")
TimeoutResult     == Failure("File processing timeout", "File took too long to process")
NoProfileResult   ==
    Failure("No checkout profile found",
            "Could not find a published checkout profile. Make sure you have Shopify Plus.")

StagedErrorsResultFirst(errors) == Failure("Failed to create upload target", errors[1])
StagedErrorsResult(errors) == Failure("Failed to create upload target", Join(errors, ", "))
UploadFailedResultWithBody(status) ==
    Failure("Failed to upload file",
            "Upload failed with status " \o ToString(status) \o ": body")
UploadFailedResult(status) ==
    Failure("Failed to upload file", "Upload failed with status " \o ToString(status))
FileCreateErrorsResult(errors) == Failure("Failed to create file asset", Join(errors, ", "))
BrandingErrorsResult(errors)   == Failure("Failed to apply font to checkout", Join(errors, ", "))

SuccessResultWithSources ==
    [success |-> TRUE,
     message |-> "Font successfully applied to checkout!",
     appliedFontSources |-> "typography"]
SuccessResult ==
    [success |-> TRUE,
     message |-> "Font successfully applied to checkout! The new font will now appear on primary text, secondary text, and buttons."]

\* lines 748-755: the value the catch block returns
CatchResultNoError(error) ==
    [success |-> FALSE, message |-> "An unexpected error occurred"]
CatchResult(error) ==
    Failure("An unexpected error occurred",
            IF error.isError THEN error.message ELSE "Unknown error")

-----------------------------------------------------------------------------
(* What the collaborators can answer.                                      *)

\* StagedUploadTarget, lines 388-392
TargetA == [url |-> "https://storage/a", resourceUrl |-> "https://storage/a/res",
            parameters |-> <<[name |-> "key", value |-> "k1"],
                             [name |-> "policy", value |-> "p1"]>>]
TargetB == [url |-> "https://storage/b", resourceUrl |-> "https://storage/b/res",
            parameters |-> <<[name |-> "policy", value |-> "p2"],
                             [name |-> "key", value |-> "k2"]>>]

\* decoded stagedUploadsCreate responses; hasData = FALSE is a body with no
\* data.stagedUploadsCreate (the optional chains then yield undefined)
StagedUploadResponses ==
    {[hasData |-> FALSE, userErrors |-> <<>>, stagedTargets |-> <<>>]}
    \cup {[hasData |-> TRUE, userErrors |-> e, stagedTargets |-> t] :
            e \in UserErrorLists, t \in {<<>>, <<TargetA>>, <<TargetB>>}}

NoStagedUploadJson == [hasData |-> FALSE, userErrors |-> <<>>, stagedTargets |-> <<>>]

\* statuses and bodies the storage endpoint can answer the upload with
HttpStatuses == {200, 299, 300, 404, 500}
UploadResponses == {[status |-> st, body |-> "body"] : st \in HttpStatuses}
NoUploadResponse == [status |-> 0, body |-> ""]

FileId1 == "gid://shopify/GenericFile/1"
FileId2 == "gid://shopify/GenericFile/2"

\* GenericFile, lines 394-398; a file without an id has id = Undefined
CreatedFiles ==
    {[id |-> i, fileStatus |-> st] :
        i \in {FileId1, FileId2}, st \in {"PENDING", "READY"}}
    \cup {[id |-> Undefined, fileStatus |-> "PENDING"]}

FileCreateResponses ==
    {[hasData |-> FALSE, userErrors |-> <<>>, files |-> <<>>]}
    \cup {[hasData |-> TRUE, userErrors |-> e, files |-> <<>>] : e \in UserErrorLists}
    \cup {[hasData |-> TRUE, userErrors |-> e, files |-> <<f>>] :
            e \in {<<>>, <<"invalid">>}, f \in CreatedFiles}

NoFileCreateJson == [hasData |-> FALSE, userErrors |-> <<>>, files |-> <<>>]

\* data.node of a status query: absent, without a status, or with one
FileNodes ==
    {[hasNode |-> FALSE, fileStatus |-> Undefined]}
    \cup {[hasNode |-> TRUE, fileStatus |-> st] :
            st \in {Undefined, "PENDING", "PROCESSING", "READY", "FAILED"}}

NoFileNode == [hasNode |-> FALSE, fileStatus |-> Undefined]

ProfileA == [id |-> "gid://shopify/CheckoutProfile/1", name |-> "Live"]
ProfileB == [id |-> "gid://shopify/CheckoutProfile/2", name |-> "Draft"]
ProfileNoId == [id |-> Undefined, name |-> "Broken"]

\* decoded checkoutProfiles responses: the nodes of data.checkoutProfiles.edges
CheckoutProfilesResponses ==
    {[hasData |-> FALSE, edges |-> <<>>]}
    \cup {[hasData |-> TRUE, edges |-> e] :
            e \in {<<>>, <<ProfileA>>, <<ProfileB, ProfileA>>, <<ProfileNoId>>}}

NoCheckoutProfilesJson == [hasData |-> FALSE, edges |-> <<>>]

\* decoded checkoutBrandingUpsert responses
BrandingUpsertResponses ==
    {[hasData |-> FALSE, userErrors |-> <<>>, checkoutBranding |-> Undefined]}
    \cup {[hasData |-> TRUE, userErrors |-> e, checkoutBranding |-> b] :
            e \in UserErrorLists, b \in {Undefined, "typography"}}

NoBrandingUpsertJson ==
    [hasData |-> FALSE, userErrors |-> <<>>, checkoutBranding |-> Undefined]

NoBrandingVariables ==
    [checkoutProfileId |-> Undefined,
     primaryBase   |-> [genericFileId |-> Undefined, weight |-> 0],
     primaryBold   |-> [genericFileId |-> Undefined, weight |-> 0],
     secondaryBase |-> [genericFileId |-> Undefined, weight |-> 0],
     secondaryBold |-> [genericFileId |-> Undefined, weight |-> 0]]

-----------------------------------------------------------------------------
(* Conditions and expressions of the action, by source line.               *)

\* lines 472, 556, 731: data?.<mutation>?.userErrors?.length > 0
HasUserErrorsNever(json) == FALSE
HasUserErrors(json) == json.hasData /\ Len(json.userErrors) > 0

\* line 482: data?.stagedUploadsCreate?.stagedTargets?.[0], as <<>> or <<target>>
StagedTarget(json) ==
    IF json.hasData /\ Len(json.stagedTargets) > 0
    THEN <<json.stagedTargets[1]>> ELSE <<>>

\* line 566: data?.fileCreate?.files?.[0], as <<>> or <<file>>
CreatedFile(json) ==
    IF json.hasData /\ Len(json.files) > 0 THEN <<json.files[1]>> ELSE <<>>

\* line 567: !createdFile?.id
NoCreatedFileIdOnlyMissing(json) == CreatedFile(json) = <<>>
NoCreatedFileId(json) ==
    CreatedFile(json) = <<>> \/ Falsy(CreatedFile(json)[1].id)

\* line 576: let fileReady = false
InitialFileReadyFromStatus(json) == CreatedFile(json)[1].fileStatus = "READY"
InitialFileReady(json) == FALSE

\* line 577: let fileId = createdFile.id
InitialFileIdFixed(json) == FileId1
InitialFileId(json) == CreatedFile(json)[1].id

\* line 581: the condition of the poll loop
LoopConditionInclusive == ~fileReady /\ attempts <= maxAttempts
LoopConditionShort == ~fileReady /\ attempts < maxAttempts - 1
LoopCondition == ~fileReady /\ attempts < maxAttempts

\* lines 606, 609: fileNode?.fileStatus
FileStatus(node) == IF node.hasNode THEN node.fileStatus ELSE Undefined

\* line 606
IsReadyNever(node) == FALSE
IsReady(node) == FileStatus(node) = "READY"

\* line 609
IsFailedNever(node) == FALSE
IsFailedUnlessWaiting(node) == FileStatus(node) \notin {"PENDING", "READY"}
IsFailed(node) == FileStatus(node) = "FAILED"

\* line 615: if (!fileReady)
TimedOutNever == FALSE
TimedOut == ~fileReady

\* line 639: data?.checkoutProfiles?.edges?.[0]?.node, as <<>> or <<profile>>
CheckoutProfileLast(json) ==
    IF json.hasData /\ Len(json.edges) > 0
    THEN <<json.edges[Len(json.edges)]>> ELSE <<>>
CheckoutProfile(json) ==
    IF json.hasData /\ Len(json.edges) > 0 THEN <<json.edges[1]>> ELSE <<>>

\* line 640: !checkoutProfile?.id
NoCheckoutProfileId(json) ==
    CheckoutProfile(json) = <<>> \/ Falsy(CheckoutProfile(json)[1].id)

\* lines 685-724: the variables of the checkoutBrandingUpsert call
BrandingVariablesPrimaryOnly(profileId, genericFileId) ==
    [checkoutProfileId |-> profileId,
     primaryBase   |-> [genericFileId |-> genericFileId, weight |-> 400],
     primaryBold   |-> [genericFileId |-> genericFileId, weight |-> 700],
     secondaryBase |-> [genericFileId |-> Undefined, weight |-> 0],
     secondaryBold |-> [genericFileId |-> Undefined, weight |-> 0]]
BrandingVariables(profileId, genericFileId) ==
    [checkoutProfileId |-> profileId,
     primaryBase   |-> [genericFileId |-> genericFileId, weight |-> 400],
     primaryBold   |-> [genericFileId |-> genericFileId, weight |-> 700],
     secondaryBase |-> [genericFileId |-> genericFileId, weight |-> 400],
     secondaryBold |-> [genericFileId |-> genericFileId, weight |-> 700]]

\* lines 492-502: the parts appended to uploadFormData
ParameterPartsReversed(target) ==
    [i \in 1..Len(target.parameters) |->
        [name |-> target.parameters[Len(target.parameters) + 1 - i].name,
         value |-> target.parameters[Len(target.parameters) + 1 - i].value]]
ParameterParts(target) ==
    [i \in 1..Len(target.parameters) |->
        [name |-> target.parameters[i].name, value |-> target.parameters[i].value]]
FilePart(file) == [name |-> "file", value |-> "blob"]

-----------------------------------------------------------------------------
(* The action, lines 403-756.                                              *)

UploadInit ==
    /\ pc = "authenticate"
    /\ fontFile = <<>>
    /\ stagedUploadJson = NoStagedUploadJson
    /\ uploadFormData = <<>>
    /\ uploadResponse = NoUploadResponse
    /\ fileCreateJson = NoFileCreateJson
    /\ fileReady = FALSE
    /\ fileId = Undefined
    /\ attempts = 0
    /\ fileNode = NoFileNode
    /\ checkoutProfilesJson = NoCheckoutProfilesJson
    /\ brandingVariables = NoBrandingVariables
    /\ brandingUpsertJson = NoBrandingUpsertJson
    /\ returned = <<>>
    /\ escaped = FALSE
    /\ thrown = <<>>
    /\ calls = <<>>
    /\ allPending = TRUE
    /\ readyIds = {}
    /\ queriedIds = {}

\* no invocation of the concurrent pair has started
ConcurrentIdle ==
    /\ invocations = <<>>
    /\ issuedTargets = 0
    /\ storedFiles = 0

\* no request has reached the loader
LoaderIdle ==
    /\ loaders = <<>>
    /\ shopifyFunctions = <<>>
    /\ automaticDiscounts = <<>>
    /\ createdDiscounts = 0

\* the discount function has not been run
FunctionIdle ==
    /\ input = <<>>
    /\ output = <<>>

\* the storefront page has not loaded the script
RaffleIdle ==
    /\ state = <<>>
    /\ sessionStorage = <<>>
    /\ shownState = "none"
    /\ discountValue = <<>>
    /\ loadingClass = FALSE
    /\ runs = <<>>
    /\ requests = <<>>
    /\ lastResponse = <<>>
    /\ cart = <<>>
    /\ tryLuckCalls = 0

\* the checkout extension has not been rendered
AgeIdle ==
    /\ instructions = <<>>
    /\ clock = <<>>
    /\ checkout = <<>>
    /\ attributeChanges = <<>>
    /\ attributes = <<>>
    /\ intercepted = <<>>

\* the admin block has not been mounted
AdminIdle ==
    /\ selected = <<>>
    /\ block = <<>>
    /\ effect = "none"
    /\ fetched = <<>>
    /\ submits = <<>>
    /\ metafield = <<>>

\* the programs not named in `programs` have not started
Elsewhere(programs) ==
    /\ IF "upload" \in programs THEN TRUE ELSE UploadInit
    /\ IF "concurrent" \in programs THEN TRUE ELSE ConcurrentIdle
    /\ IF "loader" \in programs THEN TRUE ELSE LoaderIdle
    /\ IF "function" \in programs THEN TRUE ELSE FunctionIdle
    /\ IF "raffle" \in programs THEN TRUE ELSE RaffleIdle
    /\ IF "age" \in programs THEN TRUE ELSE AgeIdle
    /\ IF "admin" \in programs THEN TRUE ELSE AdminIdle

Init == UploadInit /\ Elsewhere({"upload"})

\* a return statement of the action
Return(result) ==
    /\ pc' = "done"
    /\ returned' = <<result>>
    /\ UNCHANGED <<escaped, thrown>>

\* the next statement is at label l
GotoRetry(l) ==
    /\ pc' = IF l = "poll" /\ pc = "poll" THEN "fileCreate" ELSE l
    /\ UNCHANGED <<returned, escaped, thrown>>
Goto(l) ==
    /\ pc' = l
    /\ UNCHANGED <<returned, escaped, thrown>>

\* lines 406, 748-755: a value thrown inside the try block is caught and
\* turned into a result
TryCatchRethrow(error) ==
    /\ thrown' = <<error>>
    /\ pc' = "done"
    /\ returned' = <<>>
    /\ escaped' = TRUE
TryCatchNoResult(error) ==
    /\ thrown' = <<error>>
    /\ pc' = "done"
    /\ UNCHANGED <<returned, escaped>>
TryCatch(error) ==
    /\ thrown' = <<error>>
    /\ pc' = "done"
    /\ returned' = <<CatchResult(error)>>
    /\ UNCHANGED escaped

\* line 407: authenticate.admin(request)
Authenticate ==
    /\ pc = "authenticate"
    /\ Only({"upload"})
    /\ \/ \E error \in Thrown : TryCatch(error)
       \/ Goto("formData")
    /\ UNCHANGED <<fontFile, stagedUploadJson, uploadFormData, uploadResponse,
                   fileCreateJson, fileReady, fileId, attempts, fileNode,
                   checkoutProfilesJson, brandingVariables, brandingUpsertJson,
                   calls, allPending, readyIds, queriedIds>>

\* lines 410-430: request.formData(), the file check and the extension check
ParseForm ==
    /\ pc = "formData"
    /\ Only({"upload"})
    /\ \/ /\ \E error \in Thrown : TryCatch(error)
          /\ UNCHANGED fontFile
       \/ \E file \in FontFiles :
            /\ fontFile' = file
            /\ IF file = <<>>
               THEN Return(NoFileResult)
               ELSE IF ~IsAllowedType(ToLowerCase(file[1].name))
                    THEN Return(InvalidTypeResult)
                    ELSE Goto("stagedUploadsCreate")
    /\ UNCHANGED <<stagedUploadJson, uploadFormData, uploadResponse,
                   fileCreateJson, fileReady, fileId, attempts, fileNode,
                   checkoutProfilesJson, brandingVariables, brandingUpsertJson,
                   calls, allPending, readyIds, queriedIds>>

\* lines 436-486, step 1: the stagedUploadsCreate mutation and its result
ProvisionUpload ==
    /\ pc = "stagedUploadsCreate"
    /\ Only({"upload"})
    /\ calls' = Append(calls, "provisionUpload")
    /\ \/ /\ \E error \in Thrown : TryCatch(error)
          /\ UNCHANGED stagedUploadJson
       \/ \E json \in StagedUploadResponses :
            /\ stagedUploadJson' = json
            /\ IF HasUserErrors(json)
               THEN Return(StagedErrorsResult(json.userErrors))
               ELSE IF StagedTarget(json) = <<>>
                    THEN Return(NoTargetResult)
                    ELSE Goto("upload")
    /\ UNCHANGED <<fontFile, uploadFormData, uploadResponse,
                   fileCreateJson, fileReady, fileId, attempts, fileNode,
                   checkoutProfilesJson, brandingVariables, brandingUpsertJson,
                   allPending, readyIds, queriedIds>>

\* lines 492-517, step 2: the multipart body and the upload fetch
Transmit ==
    /\ pc = "upload"
    /\ Only({"upload"})
    /\ LET stagedTarget == StagedTarget(stagedUploadJson)[1]
           params == ParameterParts(stagedTarget)
       IN
       \/ \* line 500: fontFile.arrayBuffer() throws, before the fetch
          /\ uploadFormData' = params
          /\ \E error \in Thrown : TryCatch(error)
          /\ UNCHANGED <<calls, uploadResponse>>
       \/ \* line 504: fetch throws
          /\ uploadFormData' = Append(params, FilePart(fontFile[1]))
          /\ calls' = Append(calls, "transmit")
          /\ \E error \in Thrown : TryCatch(error)
          /\ UNCHANGED uploadResponse
       \/ \* line 504: fetch answers
          /\ uploadFormData' = Append(params, FilePart(fontFile[1]))
          /\ calls' = Append(calls, "transmit")
          /\ \E response \in UploadResponses :
               /\ uploadResponse' = response
               /\ IF ~ResponseOk(response.status)
                  THEN \/ \* line 510: uploadResponse.text() throws
                          \E error \in Thrown : TryCatch(error)
                       \/ Return(UploadFailedResult(response.status))
                  ELSE Goto("fileCreate")
    /\ UNCHANGED <<fontFile, stagedUploadJson,
                   fileCreateJson, fileReady, fileId, attempts, fileNode,
                   checkoutProfilesJson, brandingVariables, brandingUpsertJson,
                   allPending, readyIds, queriedIds>>

\* lines 523-579, step 3: the fileCreate mutation, its result, and the
\* initialisation of the poll loop
RegisterAsset ==
    /\ pc = "fileCreate"
    /\ Only({"upload"})
    /\ calls' = Append(calls, "registerAsset")
    /\ \/ /\ \E error \in Thrown : TryCatch(error)
          /\ UNCHANGED <<fileCreateJson, fileReady, fileId, attempts>>
       \/ \E json \in FileCreateResponses :
            /\ fileCreateJson' = json
            /\ IF HasUserErrors(json)
               THEN /\ Return(FileCreateErrorsResult(json.userErrors))
                    /\ UNCHANGED <<fileReady, fileId, attempts>>
               ELSE IF NoCreatedFileId(json)
                    THEN /\ Return(NoFileIdResult)
                         /\ UNCHANGED <<fileReady, fileId, attempts>>
                    ELSE /\ fileReady' = InitialFileReady(json)
                         /\ fileId' = InitialFileId(json)
                         /\ attempts' = 0
                         /\ Goto("poll")
    /\ UNCHANGED <<fontFile, stagedUploadJson, uploadFormData, uploadResponse,
                   fileNode, checkoutProfilesJson, brandingVariables,
                   brandingUpsertJson, allPending, readyIds, queriedIds>>

\* lines 581-613, step 4: one iteration of the poll loop
QueryAssetStatus ==
    /\ pc = "poll"
    /\ Only({"upload"})
    /\ LoopCondition
    /\ attempts' = attempts + 1
    /\ calls' = Append(calls, "queryAssetStatus")
    /\ queriedIds' = queriedIds \cup {fileId}
    /\ \/ /\ \E error \in Thrown : TryCatch(error)
          /\ allPending' = FALSE
          /\ UNCHANGED <<fileNode, fileReady, readyIds>>
       \/ \E node \in FileNodes :
            /\ fileNode' = node
            /\ allPending' = (allPending /\ FileStatus(node) = "PENDING")
            /\ readyIds' = IF FileStatus(node) = "READY"
                           THEN readyIds \cup {fileId} ELSE readyIds
            /\ IF IsReady(node)
               THEN /\ fileReady' = TRUE
                    /\ Goto("poll")
               ELSE IF IsFailed(node)
                    THEN /\ Return(ProcessingFailedResult)
                         /\ UNCHANGED fileReady
                    ELSE /\ Goto("poll")
                         /\ UNCHANGED fileReady
    /\ UNCHANGED <<fontFile, stagedUploadJson, uploadFormData, uploadResponse,
                   fileCreateJson, fileId, checkoutProfilesJson,
                   brandingVariables, brandingUpsertJson>>

\* lines 581, 615-618: the poll loop ends
PollExit ==
    /\ pc = "poll"
    /\ Only({"upload"})
    /\ ~LoopCondition
    /\ IF TimedOut
       THEN Return(TimeoutResult)
       ELSE Goto("checkoutProfiles")
    /\ UNCHANGED <<fontFile, stagedUploadJson, uploadFormData, uploadResponse,
                   fileCreateJson, fileReady, fileId, attempts, fileNode,
                   checkoutProfilesJson, brandingVariables, brandingUpsertJson,
                   calls, allPending, readyIds, queriedIds>>

\* lines 622-647, step 5: the checkoutProfiles query and its result
QueryActiveProfile ==
    /\ pc = "checkoutProfiles"
    /\ Only({"upload"})
    /\ calls' = Append(calls, "queryActiveProfile")
    /\ \/ /\ \E error \in Thrown : TryCatch(error)
          /\ UNCHANGED checkoutProfilesJson
       \/ \E json \in CheckoutProfilesResponses :
            /\ checkoutProfilesJson' = json
            /\ IF NoCheckoutProfileId(json)
               THEN Return(NoProfileResult)
               ELSE Goto("brandingUpsert")
    /\ UNCHANGED <<fontFile, stagedUploadJson, uploadFormData, uploadResponse,
                   fileCreateJson, fileReady, fileId, attempts, fileNode,
                   brandingVariables, brandingUpsertJson, allPending, readyIds, queriedIds>>

\* lines 656-746, step 6: the checkoutBrandingUpsert mutation and its result
ApplyBinding ==
    /\ pc = "brandingUpsert"
    /\ Only({"upload"})
    /\ calls' = Append(calls, "applyBinding")
    /\ brandingVariables' =
         BrandingVariables(CheckoutProfile(checkoutProfilesJson)[1].id, fileId)
    /\ \/ /\ \E error \in Thrown : TryCatch(error)
          /\ UNCHANGED brandingUpsertJson
       \/ \E json \in BrandingUpsertResponses :
            /\ brandingUpsertJson' = json
            /\ IF HasUserErrors(json)
               THEN Return(BrandingErrorsResult(json.userErrors))
               ELSE Return(SuccessResult)
    /\ UNCHANGED <<fontFile, stagedUploadJson, uploadFormData, uploadResponse,
                   fileCreateJson, fileReady, fileId, attempts, fileNode,
                   checkoutProfilesJson, allPending, readyIds, queriedIds>>

Next ==
    \/ Authenticate
    \/ ParseForm
    \/ ProvisionUpload
    \/ Transmit
    \/ RegisterAsset
    \/ QueryAssetStatus
    \/ PollExit
    \/ QueryActiveProfile
    \/ ApplyBinding

Spec == Init /\ [][Next]_vars

\* every await of the action settles: a step that can be taken is taken
FairSpec == Spec /\ WF_vars(Next)

-----------------------------------------------------------------------------
(* Vocabulary of the properties: what the collaborators were asked and     *)
(* what they answered, read off the log and the decoded responses.         *)

Ops == {"provisionUpload", "transmit", "registerAsset", "queryAssetStatus",
        "queryActiveProfile", "applyBinding"}

Rank(op) ==
    CASE op = "provisionUpload"    -> 1
      [] op = "transmit"           -> 2
      [] op = "registerAsset"      -> 3
      [] op = "queryAssetStatus"   -> 4
      [] op = "queryActiveProfile" -> 5
      [] op = "applyBinding"       -> 6

Called(op) == \E i \in 1..Len(calls) : calls[i] = op
Count(op) == Cardinality({i \in 1..Len(calls) : calls[i] = op})
LastCall == calls[Len(calls)]

Done == pc = "done"
Result == returned[1]

\* provisionUpload returned a target and no validation errors
ProvisionSucceeded ==
    /\ Called("provisionUpload")
    /\ stagedUploadJson.hasData
    /\ stagedUploadJson.userErrors = <<>>
    /\ stagedUploadJson.stagedTargets # <<>>

\* transmit returned a 2xx status
TransmitSucceeded ==
    /\ Called("transmit")
    /\ uploadResponse.status \in 200..299

\* registerAsset returned an asset id and no validation errors
RegisterSucceeded ==
    /\ Called("registerAsset")
    /\ fileCreateJson.hasData
    /\ fileCreateJson.userErrors = <<>>
    /\ fileCreateJson.files # <<>>
    /\ fileCreateJson.files[1].id \in {FileId1, FileId2}

\* the asset id registerAsset returned
RegisteredId == fileCreateJson.files[1].id

\* some status query for the registered asset reported READY
PollSucceeded == RegisterSucceeded /\ RegisteredId \in readyIds

\* queryActiveProfile returned a profile with an id
ProfileSucceeded ==
    /\ Called("queryActiveProfile")
    /\ checkoutProfilesJson.hasData
    /\ checkoutProfilesJson.edges # <<>>
    /\ checkoutProfilesJson.edges[1].id # Undefined

\* applyBinding returned no validation errors
BindingSucceeded ==
    /\ Called("applyBinding")
    /\ thrown = <<>>
    /\ brandingUpsertJson.userErrors = <<>>

-----------------------------------------------------------------------------
(* C1: the collaborator calls of an invocation happen only in the order    *)
(* provisionUpload, transmit, registerAsset, queryAssetStatus (one or      *)
(* more), queryActiveProfile, applyBinding; a step is called only if every *)
(* earlier step succeeded; and a step that failed is the last call of the  *)
(* invocation: no call of any kind follows it.                             *)
C1_ForwardOnly ==
    /\ \A i \in 1..Len(calls) : calls[i] \in Ops
    /\ Len(calls) > 0 => calls[1] = "provisionUpload"
    /\ \A i \in 1..(Len(calls) - 1) :
          \/ Rank(calls[i + 1]) = Rank(calls[i]) + 1
          \/ calls[i] = "queryAssetStatus" /\ calls[i + 1] = "queryAssetStatus"
    /\ Called("transmit") => ProvisionSucceeded
    /\ Called("registerAsset") => TransmitSucceeded
    /\ Called("queryAssetStatus") => RegisterSucceeded
    /\ Called("queryActiveProfile") => PollSucceeded
    /\ Called("applyBinding") => ProfileSucceeded
    /\ Called("provisionUpload") /\ ~ProvisionSucceeded
          => Done /\ LastCall = "provisionUpload"
    /\ Called("transmit") /\ ~TransmitSucceeded
          => Done /\ LastCall = "transmit"
    /\ Called("registerAsset") /\ ~RegisterSucceeded
          => Done /\ LastCall = "registerAsset"
    /\ Called("queryAssetStatus") /\ Done /\ ~PollSucceeded
          => LastCall = "queryAssetStatus"
    /\ Called("queryActiveProfile") /\ ~ProfileSucceeded
          => Done /\ LastCall = "queryActiveProfile"

\* a run that went through all six steps, with more than one status query
C1_Witness ==
    /\ Done
    /\ Called("applyBinding")
    /\ Count("queryAssetStatus") = 3

(* C2: the action returns success: true only if, in this invocation, every *)
(* one of the six steps succeeded; a run in which some step did not is     *)
(* reported as a failure carrying only success, message and error.         *)
C2_SuccessOnlyIfAllSteps ==
    Done /\ returned # <<>> =>
        /\ Result.success =>
              /\ ProvisionSucceeded
              /\ TransmitSucceeded
              /\ RegisterSucceeded
              /\ PollSucceeded
              /\ ProfileSucceeded
              /\ BindingSucceeded
        /\ ~(ProvisionSucceeded /\ TransmitSucceeded /\ RegisterSucceeded
              /\ PollSucceeded /\ ProfileSucceeded /\ BindingSucceeded) =>
              /\ Result.success = FALSE
              /\ DOMAIN Result = {"success", "message", "error"}

\* the binding fails after the five earlier steps completed
C2_Witness ==
    /\ Done
    /\ ProfileSucceeded
    /\ Called("applyBinding")
    /\ brandingUpsertJson.userErrors = <<"invalid">>
    /\ Result.success = FALSE

(* C3: if the poller was entered and every status query reported PENDING,  *)
(* the invocation ends after exactly 30 status queries with the result     *)
(* {success: false, message: "File processing timeout", error: "File took  *)
(* too long to process"}, and queryActiveProfile and applyBinding are      *)
(* never called.                                                           *)
C3_TimeoutAfterThirty ==
    RegisterSucceeded /\ allPending =>
        /\ ~Called("queryActiveProfile")
        /\ ~Called("applyBinding")
        /\ Count("queryAssetStatus") < 30 => pc = "poll"
        /\ Done =>
              /\ Count("queryAssetStatus") = 30
              /\ returned = <<[success |-> FALSE,
                               message |-> "File processing timeout",
                               error |-> "File took too long to process"]>>

\* thirty PENDING answers and the invocation has returned
C3_Witness ==
    /\ RegisterSucceeded
    /\ allPending
    /\ Done
    /\ Count("queryAssetStatus") = 30

(* C4: in every reachable state of an invocation at most 30 status queries *)
(* have been issued, whatever statuses the platform reports.               *)
C4_AtMostThirty ==
    /\ Count("queryAssetStatus") <= 30
    /\ attempts = Count("queryAssetStatus")

\* the thirtieth query answered with something that is not PENDING, READY
\* or FAILED, and the invocation still running
C4_Witness ==
    /\ Count("queryAssetStatus") = 30
    /\ FileStatus(fileNode) = "PROCESSING"
    /\ ~allPending
    /\ pc = "poll"

(* C5: once a status query reports READY no further status query is issued *)
(* and the pipeline goes on to queryActiveProfile, at whichever of the 30   *)
(* attempts that happens (the thirtieth included: that run does not time    *)
(* out); once a status query reports FAILED no further status query is      *)
(* issued and the invocation has returned the failure "File processing      *)
(* failed" without calling queryActiveProfile or applyBinding.              *)
C5_LastStatus == FileStatus(fileNode)

C5_ReadyState ==
    C5_LastStatus = "READY" =>
        /\ pc \in {"poll", "checkoutProfiles", "brandingUpsert", "done"}
        /\ pc # "poll" => Called("queryActiveProfile") \/ pc = "checkoutProfiles"
        /\ Done => returned # <<[success |-> FALSE,
                                 message |-> "File processing timeout",
                                 error |-> "File took too long to process"]>>

C5_FailedState ==
    C5_LastStatus = "FAILED" =>
        /\ Done
        /\ returned # <<>>
        /\ Result.success = FALSE
        /\ Result.message = "File processing failed"
        /\ ~Called("queryActiveProfile")
        /\ ~Called("applyBinding")

C5_NoQueryAfterTerminal ==
    C5_LastStatus \in {"READY", "FAILED"} =>
        /\ Count("queryAssetStatus")' = Count("queryAssetStatus")
        /\ C5_LastStatus = "READY" /\ pc = "poll" => pc' = "checkoutProfiles"

C5_TerminalStatusStopsPolling ==
    /\ [](C5_ReadyState /\ C5_FailedState)
    /\ [][C5_NoQueryAfterTerminal]_vars

\* READY is reported by the thirtieth query, and the profile query follows
C5_Witness ==
    /\ Count("queryAssetStatus") = 30
    /\ C5_LastStatus = "READY"
    /\ Called("queryActiveProfile")

(* C6: queryActiveProfile and applyBinding are called only after a status  *)
(* query for the asset id that registerAsset returned in this invocation   *)
(* has reported READY, and the invocation is past the poller only while    *)
(* the last observed status of the asset is READY.                         *)
C6_ReadyBeforeBinding ==
    /\ Called("queryActiveProfile") \/ Called("applyBinding") =>
          /\ RegisterSucceeded
          /\ RegisteredId \in readyIds
    /\ pc \in {"checkoutProfiles", "brandingUpsert"} =>
          /\ FileStatus(fileNode) = "READY"
          /\ RegisteredId \in readyIds
    /\ Called("applyBinding") =>
          brandingVariables.primaryBase.genericFileId \in readyIds

\* the second asset id was registered, polled more than once, and bound
C6_Witness ==
    /\ RegisterSucceeded
    /\ RegisteredId = FileId2
    /\ Count("queryAssetStatus") = 2
    /\ Called("applyBinding")

(* C7 as stated: for every file name that does not end in .woff or .woff2  *)
(* the action returns the "Invalid file type" failure and calls no         *)
(* collaborator.                                                           *)
C7_NameOf(file) == file[1].name

C7_InvalidTypeOutcome ==
    /\ Done
    /\ returned = <<[success |-> FALSE,
                     message |-> "Invalid file type",
                     error |-> "Only .woff and .woff2 files are allowed"]>>
    /\ calls = <<>>

C7_Original ==
    fontFile # <<>>
    /\ ~EndsWith(C7_NameOf(fontFile), ExtWoff)
    /\ ~EndsWith(C7_NameOf(fontFile), ExtWoff2)
    => C7_InvalidTypeOutcome

(* C7, amended: for every file name that, compared without regard to       *)
(* letter case, does not end in .woff or .woff2 the action returns the     *)
(* "Invalid file type" failure and calls no collaborator.                  *)
C7_RejectsOtherExtensions ==
    fontFile # <<>> =>
        LET lower == ToLowerCase(C7_NameOf(fontFile))
        IN  ~EndsWith(lower, ExtWoff) /\ ~EndsWith(lower, ExtWoff2)
            => C7_InvalidTypeOutcome

\* a name with the letters of the extension but not the dot is rejected
C7_Witness ==
    /\ fontFile = <<[name |-> Name_woff]>>
    /\ C7_InvalidTypeOutcome

(* C8: for every HTTP status >= 300 that the transmit step returns, the    *)
(* action returns a failure and never calls registerAsset or a later step; *)
(* the failure's message is "Failed to upload file" and its error text     *)
(* names the status.  (Transmit has returned once the response and its     *)
(* body are read: if reading the body throws, the step threw, and the      *)
(* failure is the one of the catch block.)                                 *)
C8_NoLaterStep ==
    /\ LastCall = "transmit"
    /\ ~Called("registerAsset")
    /\ ~Called("queryAssetStatus")
    /\ ~Called("queryActiveProfile")
    /\ ~Called("applyBinding")

C8_UploadRejected ==
    uploadResponse.status >= 300 =>
        /\ Done
        /\ returned # <<>>
        /\ Result.success = FALSE
        /\ C8_NoLaterStep
        /\ IF thrown = <<>>
           THEN /\ Result.message = "Failed to upload file"
                /\ Result.error =
                     "Upload failed with status " \o ToString(uploadResponse.status)
           ELSE Result.message = "An unexpected error occurred"

\* the smallest status that is not 2xx
C8_Witness ==
    /\ uploadResponse.status = 300
    /\ thrown = <<>>
    /\ Done

(* C9: whatever a collaborator throws, and at whichever step, the action   *)
(* returns {success: false, message: "An unexpected error occurred",       *)
(* error: <text>}; no exception leaves the action.                         *)
C9_ThrowIsCaught ==
    /\ ~escaped
    /\ thrown # <<>> =>
          /\ Done
          /\ returned # <<>>
          /\ DOMAIN Result = {"success", "message", "error"}
          /\ Result.success = FALSE
          /\ Result.message = "An unexpected error occurred"
          /\ Result.error \in {"fetch failed", "Unknown error"}
          /\ thrown[1].isError => Result.error = thrown[1].message

\* a value that is no Error is thrown in the middle of the poll loop
C9_Witness ==
    /\ thrown # <<>>
    /\ ~thrown[1].isError
    /\ Count("queryAssetStatus") = 2
    /\ Done

C11_ProfilesAnswered ==
    Called("queryActiveProfile") /\ thrown = <<>> /\ checkoutProfilesJson.hasData

C11_FirstProfileWins ==
    /\ C11_ProfilesAnswered /\ Len(checkoutProfilesJson.edges) = 0 =>
          /\ Done
          /\ returned # <<>>
          /\ Result.success = FALSE
          /\ Result.message = "No checkout profile found"
          /\ ~Called("applyBinding")
    /\ Called("queryActiveProfile") /\ Len(checkoutProfilesJson.edges) >= 2 =>
          /\ pc \in {"brandingUpsert", "done"}
          /\ Done => Called("applyBinding")
          /\ Called("applyBinding") =>
                brandingVariables.checkoutProfileId = checkoutProfilesJson.edges[1].id
    /\ Called("applyBinding") =>
          brandingVariables.checkoutProfileId = checkoutProfilesJson.edges[1].id

\* two profiles were returned and the binding was applied
C11_Witness ==
    /\ Len(checkoutProfilesJson.edges) = 2
    /\ Called("applyBinding")
    /\ brandingVariables.checkoutProfileId = ProfileB.id

(* C12: within one invocation each of provisionUpload, transmit,           *)
(* registerAsset, queryActiveProfile and applyBinding is called at most    *)
(* once, whatever the responses are; only queryAssetStatus is repeated.    *)
C12_NoRetry ==
    \A op \in Ops \ {"queryAssetStatus"} : Count(op) <= 1

\* every step was called, the status query more than once
C12_Witness ==
    /\ \A op \in Ops \ {"queryAssetStatus"} : Count(op) = 1
    /\ Count("queryAssetStatus") = 4
    /\ Done

(* C13 as stated: the poller's initial state is the status the asset had   *)
(* at registration: an asset registered READY puts the poller in terminal  *)
(* success at once, without a status query; an asset registered PENDING    *)
(* starts the poller in PENDING.                                           *)
C13_RegisteredStatus == fileCreateJson.files[1].fileStatus

C13_Original ==
    RegisterSucceeded =>
        IF C13_RegisteredStatus = "READY"
        THEN /\ ~Called("queryAssetStatus")
             /\ pc = "poll" => fileReady
        ELSE pc = "poll" /\ ~Called("queryAssetStatus") => ~fileReady

(* C13, amended: the poller's initial state is always "not ready",         *)
(* whatever status the asset had at registration: an asset registered      *)
(* PENDING starts the poller in PENDING, and so does an asset registered   *)
(* READY; in both cases at least one status query is issued before the     *)
(* pipeline goes on to queryActiveProfile.                                 *)
C13_PollerStartsNotReady ==
    RegisterSucceeded =>
        /\ pc = "poll" /\ ~Called("queryAssetStatus") => ~fileReady
        /\ pc \in {"checkoutProfiles", "brandingUpsert"} => Called("queryAssetStatus")
        /\ Called("queryActiveProfile") => Called("queryAssetStatus")
        /\ Done /\ thrown = <<>> => Called("queryAssetStatus")

\* an asset registered READY whose first status query reports FAILED
C13_Witness ==
    /\ RegisterSucceeded
    /\ C13_RegisteredStatus = "READY"
    /\ Count("queryAssetStatus") = 1
    /\ FileStatus(fileNode) = "FAILED"
    /\ Done

\* text occurs in whole as a part of the string
Contains(whole, text) ==
    \E i \in 1..(Len(whole) - Len(text) + 1) :
        SubSeq(whole, i, i + Len(text) - 1) = text

\* the upload was answered with a status that is not 2xx, and the body read
UploadRefused ==
    /\ Called("transmit")
    /\ thrown = <<>>
    /\ uploadResponse.status > 0
    /\ uploadResponse.status \notin 200..299

(* C14 as stated: when the transmit step receives a non-2xx status, the    *)
(* failure result returned to the caller carries both the HTTP status code *)
(* and the response body of the upload.                                    *)
C14_Original ==
    UploadRefused =>
        /\ returned # <<>>
        /\ \E f \in {"message", "error"} :
              Contains(Result[f], ToString(uploadResponse.status))
        /\ \E f \in {"message", "error"} :
              Contains(Result[f], uploadResponse.body)

(* C14, amended: when the transmit step receives a non-2xx status, the     *)
(* failure result returned to the caller carries the HTTP status code in   *)
(* its error text, and nothing of the response body (the body is read and  *)
(* logged only).                                                           *)
C14_StatusOnly ==
    UploadRefused =>
        /\ Done
        /\ returned # <<>>
        /\ DOMAIN Result = {"success", "message", "error"}
        /\ Result.success = FALSE
        /\ Contains(Result.error, ToString(uploadResponse.status))
        /\ \A f \in {"message", "error"} :
              ~Contains(Result[f], uploadResponse.body)

\* a 404 answer with a body
C14_Witness ==
    /\ UploadRefused
    /\ uploadResponse.status = 404
    /\ uploadResponse.body = "body"
    /\ Done

\* applyBinding answered without validation errors and with the typography
\* structure the platform persisted
BindingPersisted ==
    /\ BindingSucceeded
    /\ brandingUpsertJson.hasData
    /\ brandingUpsertJson.checkoutBranding = "typography"

(* C15 as stated: when applyBinding succeeds, the success result returns   *)
(* the typography structure the platform persisted.                        *)
C15_Original ==
    BindingPersisted =>
        /\ returned # <<>>
        /\ \E f \in DOMAIN Result \ {"success"} :
              Result[f] = brandingUpsertJson.checkoutBranding

(* C15, amended: when applyBinding succeeds, the success result is exactly *)
(* {success: true, message: "Font successfully applied to checkout! ..."}: *)
(* the typography structure the platform persisted is logged and is not    *)
(* part of the result.                                                     *)
C15_MessageOnly ==
    BindingSucceeded =>
        /\ Done
        /\ returned =
             <<[success |-> TRUE,
                message |-> "Font successfully applied to checkout! The new font will now appear on primary text, secondary text, and buttons."]>>

\* the platform answered with the persisted structure
C15_Witness ==
    /\ BindingPersisted
    /\ Done
    /\ Result.success

(* C16: the applyBinding call of an invocation sets four font slots,       *)
(* primary base (weight 400), primary bold (700), secondary base (400) and *)
(* secondary bold (700), all four with the same asset id, which is the id  *)
(* registerAsset returned and the id of every status query of the          *)
(* invocation.                                                             *)
C16_FourSlotsOneAsset ==
    /\ Called("queryAssetStatus") => queriedIds = {RegisteredId}
    /\ Called("applyBinding") =>
          /\ Count("applyBinding") = 1
          /\ RegisterSucceeded
          /\ queriedIds = {RegisteredId}
          /\ brandingVariables.primaryBase =
                [genericFileId |-> RegisteredId, weight |-> 400]
          /\ brandingVariables.primaryBold =
                [genericFileId |-> RegisteredId, weight |-> 700]
          /\ brandingVariables.secondaryBase =
                [genericFileId |-> RegisteredId, weight |-> 400]
          /\ brandingVariables.secondaryBold =
                [genericFileId |-> RegisteredId, weight |-> 700]

\* the second asset id, polled three times and then bound
C16_Witness ==
    /\ Called("applyBinding")
    /\ Count("queryAssetStatus") = 3
    /\ brandingVariables.secondaryBold.genericFileId = FileId2

(* C17: the multipart body sent by the transmit step consists of every     *)
(* form field of the upload target, in the order the platform supplied     *)
(* them, followed by the binary file as the last part; no field is         *)
(* dropped, duplicated, reordered or placed after the file.                *)
C17_SuppliedFields == stagedUploadJson.stagedTargets[1].parameters

C17_FieldsThenFile ==
    Called("transmit") =>
        /\ ProvisionSucceeded
        /\ Len(uploadFormData) = Len(C17_SuppliedFields) + 1
        /\ \A i \in 1..Len(C17_SuppliedFields) :
              /\ uploadFormData[i].name = C17_SuppliedFields[i].name
              /\ uploadFormData[i].value = C17_SuppliedFields[i].value
        /\ uploadFormData[Len(uploadFormData)] = [name |-> "file", value |-> "blob"]

\* the target whose fields come as policy, key was transmitted to
C17_Witness ==
    /\ Called("transmit")
    /\ stagedUploadJson.stagedTargets = <<TargetB>>
    /\ uploadFormData[1].name = "policy"
    /\ uploadFormData[2].name = "key"
    /\ uploadFormData[3].name = "file"

(* C18: if provisionUpload reports one or more validation errors, the      *)
(* action fails with an error field that contains every reported message,  *)
(* also when a staged target is returned with them; if it reports no error *)
(* and returns no target the action fails too; in both cases transmit is   *)
(* never called.                                                           *)
C18_ProvisionAnswered == Called("provisionUpload") /\ thrown = <<>>

C18_ReportedErrors ==
    IF stagedUploadJson.hasData THEN stagedUploadJson.userErrors ELSE <<>>

C18_NoTarget ==
    ~(stagedUploadJson.hasData /\ Len(stagedUploadJson.stagedTargets) > 0)

C18_ProvisionFailureIsFinal ==
    /\ C18_ProvisionAnswered /\ Len(C18_ReportedErrors) >= 1 =>
          /\ Done
          /\ returned # <<>>
          /\ Result.success = FALSE
          /\ "error" \in DOMAIN Result
          /\ \A i \in 1..Len(C18_ReportedErrors) :
                Contains(Result.error, C18_ReportedErrors[i])
          /\ ~Called("transmit")
    /\ C18_ProvisionAnswered /\ Len(C18_ReportedErrors) = 0 /\ C18_NoTarget =>
          /\ Done
          /\ returned # <<>>
          /\ Result.success = FALSE
          /\ ~Called("transmit")

\* two different validation messages, and a staged target with them
C18_Witness ==
    /\ C18_ProvisionAnswered
    /\ stagedUploadJson.userErrors = <<"too large", "invalid">>
    /\ stagedUploadJson.stagedTargets = <<TargetA>>
    /\ Done

(* C19: if registerAsset reports validation errors or returns no asset id, *)
(* the action fails ("Failed to create file asset" / "No file created")    *)
(* and issues no status query, no queryActiveProfile and no applyBinding.  *)
C19_RegisterAnswered == Called("registerAsset") /\ thrown = <<>>

C19_ReportedErrors ==
    IF fileCreateJson.hasData THEN fileCreateJson.userErrors ELSE <<>>

C19_NoAssetId ==
    \/ ~fileCreateJson.hasData
    \/ fileCreateJson.files = <<>>
    \/ fileCreateJson.files[1].id = Undefined

C19_NothingAfterRegister ==
    /\ Done
    /\ returned # <<>>
    /\ Result.success = FALSE
    /\ Count("queryAssetStatus") = 0
    /\ ~Called("queryActiveProfile")
    /\ ~Called("applyBinding")

C19_RegisterFailureIsFinal ==
    /\ C19_RegisterAnswered /\ Len(C19_ReportedErrors) >= 1 =>
          /\ C19_NothingAfterRegister
          /\ Result.message = "Failed to create file asset"
    /\ C19_RegisterAnswered /\ Len(C19_ReportedErrors) = 0 /\ C19_NoAssetId =>
          /\ C19_NothingAfterRegister
          /\ Result.message = "No file created"

\* a file record came back, but without an id
C19_Witness ==
    /\ C19_RegisterAnswered
    /\ fileCreateJson.userErrors = <<>>
    /\ fileCreateJson.files # <<>>
    /\ fileCreateJson.files[1].id = Undefined
    /\ Done

\* the string begins with text
StartsWith(whole, text) ==
    /\ Len(text) <= Len(whole)
    /\ SubSeq(whole, 1, Len(text)) = text

(* C20: for a file with a permitted extension, if provisionUpload returns  *)
(* a target, transmit returns 2xx, registerAsset returns an id, a status   *)
(* query reports READY, queryActiveProfile returns a profile and           *)
(* applyBinding reports no validation errors (none of the steps reporting  *)
(* validation errors or throwing), the action returns success: true with a *)
(* message that begins "Font successfully applied"; and when the first     *)
(* status query reports READY, exactly one status query is made.           *)
C20_AllStepsSucceeded ==
    /\ fontFile # <<>>
    /\ ProvisionSucceeded
    /\ TransmitSucceeded
    /\ RegisterSucceeded
    /\ PollSucceeded
    /\ ProfileSucceeded
    /\ BindingSucceeded

C20_Success ==
    C20_AllStepsSucceeded =>
        /\ Done
        /\ returned # <<>>
        /\ Result.success = TRUE
        /\ StartsWith(Result.message, "Font successfully applied")

C20_FirstReadyIsLast ==
    Count("queryAssetStatus") = 1 /\ FileStatus(fileNode) = "READY" =>
        Count("queryAssetStatus")' = 1

C20_HappyPath == []C20_Success /\ [][C20_FirstReadyIsLast]_vars

\* a .woff2 file, a 200 upload, READY at the first status query, success
C20_Witness ==
    /\ C20_AllStepsSucceeded
    /\ fontFile = <<[name |-> Name_a_woff2]>>
    /\ uploadResponse.status = 200
    /\ C13_RegisteredStatus = "PENDING"
    /\ Count("queryAssetStatus") = 1
    /\ Done
    /\ Result.success

-----------------------------------------------------------------------------
(* Two invocations of the action at once (lines 403-756).  Every variable  *)
(* of `action` is declared inside the function, so each invocation has its *)
(* own copy; the platform is what they share: it issues a new upload       *)
(* target to every stagedUploadsCreate and a new file id to every          *)
(* fileCreate.  `sent` and `obtained*` record, for each invocation, what   *)
(* it sent to the platform and what the platform answered to it.           *)

Invocations == {"a", "b"}

\* the n-th upload target the platform issues, the n-th file it creates
IssuedTarget(n) ==
    [url |-> "https://storage/" \o ToString(n),
     resourceUrl |-> "https://storage/" \o ToString(n) \o "/res",
     parameters |-> <<>>]
StoredFileId(n) == "gid://shopify/GenericFile/" \o ToString(n)

\* lines 403-406: the locals of an invocation that has just been called
Called0 ==
    [pc |-> "authenticate", stagedTarget |-> <<>>, fileId |-> Undefined,
     fileReady |-> FALSE, attempts |-> 0, checkoutProfile |-> <<>>,
     returned |-> <<>>,
     sent |-> {}, obtainedTarget |-> <<>>, obtainedId |-> <<>>, answers |-> <<>>]

ConcurrentInit ==
    /\ invocations = [i \in Invocations |-> Called0]
    /\ issuedTargets = 0
    /\ storedFiles = 0
    /\ Elsewhere({"concurrent"})

\* line 482: const stagedTarget, a local of invocation i
StagedTargetOfLatest(i) == IssuedTarget(issuedTargets)
StagedTargetOf(i) == invocations[i].stagedTarget[1]

\* line 577: let fileId, a local of invocation i
FileIdOfLatest(i) == StoredFileId(storedFiles)
FileIdOf(i) == invocations[i].fileId

\* a return statement, and the fall through to the statement at label l;
\* `answer` is what the collaborator answered
ReturnFrom(r, result, answer) ==
    [r EXCEPT !.pc = "done", !.returned = <<result>>, !.answers = Append(@, answer)]
Continue(r, l, answer) ==
    [r EXCEPT !.pc = l, !.answers = Append(@, answer)]

\* lines 748-755: the catch block
Caught(r) ==
    ReturnFrom(r, CatchResult([isError |-> TRUE, message |-> "fetch failed"]), "threw")

\* lines 407-430: authentication, the form and the two checks on the file
ConcurrentParseForm(i) ==
    /\ invocations[i].pc = "authenticate"
    /\ Only({"concurrent"})
    /\ LET r == invocations[i] IN
       \/ invocations' = [invocations EXCEPT ![i] = Caught(r)]
       \/ \E file \in {<<>>, <<[name |-> Name_a_ttf]>>, <<[name |-> Name_a_woff2]>>} :
            invocations' = [invocations EXCEPT ![i] =
                IF file = <<>>
                THEN ReturnFrom(r, NoFileResult, "no file")
                ELSE IF ~IsAllowedType(ToLowerCase(file[1].name))
                     THEN ReturnFrom(r, InvalidTypeResult, "invalid type")
                     ELSE Continue(r, "stagedUploadsCreate", "font file")]
    /\ UNCHANGED <<issuedTargets, storedFiles>>

\* lines 436-486, step 1
ConcurrentProvisionUpload(i) ==
    /\ invocations[i].pc = "stagedUploadsCreate"
    /\ Only({"concurrent"})
    /\ LET r == invocations[i] IN
       \/ /\ invocations' = [invocations EXCEPT ![i] = Caught(r)]
          /\ UNCHANGED issuedTargets
       \/ \E targets \in {<<>>, <<IssuedTarget(issuedTargets + 1)>>} :
            LET json == [hasData |-> TRUE, userErrors |-> <<>>, stagedTargets |-> targets]
            IN  /\ issuedTargets' = issuedTargets + Len(targets)
                /\ invocations' = [invocations EXCEPT ![i] =
                     IF StagedTarget(json) = <<>>
                     THEN ReturnFrom(r, NoTargetResult, "no target")
                     ELSE [Continue(r, "upload", "target")
                             EXCEPT !.stagedTarget = StagedTarget(json),
                                    !.obtainedTarget = targets]]
    /\ UNCHANGED storedFiles

\* lines 492-517, step 2
ConcurrentTransmit(i) ==
    /\ invocations[i].pc = "upload"
    /\ Only({"concurrent"})
    /\ LET r == [invocations[i] EXCEPT
                    !.sent = @ \cup {<<"transmit", StagedTargetOf(i).url>>}]
       IN
       \/ invocations' = [invocations EXCEPT ![i] = Caught(r)]
       \/ \E status \in {200, 500} :
            invocations' = [invocations EXCEPT ![i] =
                IF ~ResponseOk(status)
                THEN ReturnFrom(r, UploadFailedResult(status), "refused")
                ELSE Continue(r, "fileCreate", "stored")]
    /\ UNCHANGED <<issuedTargets, storedFiles>>

\* lines 523-579, step 3
ConcurrentRegisterAsset(i) ==
    /\ invocations[i].pc = "fileCreate"
    /\ Only({"concurrent"})
    /\ LET r == [invocations[i] EXCEPT
                    !.sent = @ \cup {<<"registerAsset", StagedTargetOf(i).resourceUrl>>}]
       IN
       \/ /\ invocations' = [invocations EXCEPT ![i] = Caught(r)]
          /\ UNCHANGED storedFiles
       \/ \E files \in {<<>>, <<[id |-> StoredFileId(storedFiles + 1),
                                  fileStatus |-> "PENDING"]>>} :
            LET json == [hasData |-> TRUE, userErrors |-> <<>>, files |-> files]
            IN  /\ storedFiles' = storedFiles + Len(files)
                /\ invocations' = [invocations EXCEPT ![i] =
                     IF NoCreatedFileId(json)
                     THEN ReturnFrom(r, NoFileIdResult, "no file id")
                     ELSE [Continue(r, "poll", "file")
                             EXCEPT !.fileReady = InitialFileReady(json),
                                    !.fileId = InitialFileId(json),
                                    !.attempts = 0,
                                    !.obtainedId = <<files[1].id>>]]
    /\ UNCHANGED issuedTargets

\* line 581: the loop condition on the locals r
LoopConditionOf(r) == ~r.fileReady /\ r.attempts < maxAttempts

\* lines 581-613, step 4: one iteration of the poll loop
ConcurrentQueryAssetStatus(i) ==
    /\ invocations[i].pc = "poll"
    /\ LoopConditionOf(invocations[i])
    /\ Only({"concurrent"})
    /\ LET r == [invocations[i] EXCEPT
                    !.attempts = @ + 1,
                    !.sent = @ \cup {<<"queryAssetStatus", FileIdOf(i)>>}]
       IN
       \/ invocations' = [invocations EXCEPT ![i] = Caught(r)]
       \/ \E status \in {"PENDING", "READY", "FAILED"} :
            LET node == [hasNode |-> TRUE, fileStatus |-> status]
            IN  invocations' = [invocations EXCEPT ![i] =
                    IF IsReady(node)
                    THEN [Continue(r, "poll", status) EXCEPT !.fileReady = TRUE]
                    ELSE IF IsFailed(node)
                         THEN ReturnFrom(r, ProcessingFailedResult, status)
                         ELSE Continue(r, "poll", status)]
    /\ UNCHANGED <<issuedTargets, storedFiles>>

\* lines 581, 615-618: the poll loop ends
ConcurrentPollExit(i) ==
    /\ invocations[i].pc = "poll"
    /\ ~LoopConditionOf(invocations[i])
    /\ Only({"concurrent"})
    /\ LET r == invocations[i] IN
       invocations' = [invocations EXCEPT ![i] =
           IF ~r.fileReady
           THEN ReturnFrom(r, TimeoutResult, "timeout")
           ELSE Continue(r, "checkoutProfiles", "ready")]
    /\ UNCHANGED <<issuedTargets, storedFiles>>

\* lines 622-647, step 5
ConcurrentQueryActiveProfile(i) ==
    /\ invocations[i].pc = "checkoutProfiles"
    /\ Only({"concurrent"})
    /\ LET r == invocations[i] IN
       \/ invocations' = [invocations EXCEPT ![i] = Caught(r)]
       \/ \E edges \in {<<>>, <<ProfileA>>} :
            LET json == [hasData |-> TRUE, edges |-> edges]
            IN  invocations' = [invocations EXCEPT ![i] =
                    IF NoCheckoutProfileId(json)
                    THEN ReturnFrom(r, NoProfileResult, "no profile")
                    ELSE [Continue(r, "brandingUpsert", "profile")
                            EXCEPT !.checkoutProfile = CheckoutProfile(json)]]
    /\ UNCHANGED <<issuedTargets, storedFiles>>

\* lines 656-746, step 6
ConcurrentApplyBinding(i) ==
    /\ invocations[i].pc = "brandingUpsert"
    /\ Only({"concurrent"})
    /\ LET variables ==
               BrandingVariables(invocations[i].checkoutProfile[1].id, FileIdOf(i))
           r == [invocations[i] EXCEPT
                    !.sent = @ \cup {<<"applyBinding", variables.primaryBase.genericFileId>>}]
       IN
       \/ invocations' = [invocations EXCEPT ![i] = Caught(r)]
       \/ \E errors \in {<<>>, <<"invalid">>} :
            LET json == [hasData |-> TRUE, userErrors |-> errors,
                         checkoutBranding |-> "typography"]
            IN  invocations' = [invocations EXCEPT ![i] =
                    IF HasUserErrors(json)
                    THEN ReturnFrom(r, BrandingErrorsResult(json.userErrors), "rejected")
                    ELSE ReturnFrom(r, SuccessResult, "bound")]
    /\ UNCHANGED <<issuedTargets, storedFiles>>

ConcurrentNext ==
    \E i \in Invocations :
        \/ ConcurrentParseForm(i)
        \/ ConcurrentProvisionUpload(i)
        \/ ConcurrentTransmit(i)
        \/ ConcurrentRegisterAsset(i)
        \/ ConcurrentQueryAssetStatus(i)
        \/ ConcurrentPollExit(i)
        \/ ConcurrentQueryActiveProfile(i)
        \/ ConcurrentApplyBinding(i)

ConcurrentSpec == ConcurrentInit /\ [][ConcurrentNext]_vars

-----------------------------------------------------------------------------
(* C21-C23: concurrency, termination and the poller's other statuses.      *)

\* what invocation i sent with operation op
C21_SentWith(i, op) == {m[2] : m \in {n \in invocations[i].sent : n[1] = op}}

\* invocation i used nothing but the target and the asset id the platform
\* answered to it
C21_OwnResources(i) ==
    LET r == invocations[i]
        target == r.obtainedTarget
        id == r.obtainedId
    IN  /\ C21_SentWith(i, "transmit") \subseteq {t.url : t \in {target[k] : k \in 1..Len(target)}}
        /\ C21_SentWith(i, "registerAsset")
              \subseteq {t.resourceUrl : t \in {target[k] : k \in 1..Len(target)}}
        /\ C21_SentWith(i, "queryAssetStatus") \subseteq {id[k] : k \in 1..Len(id)}
        /\ C21_SentWith(i, "applyBinding") \subseteq {id[k] : k \in 1..Len(id)}

\* the result the answers to one invocation's own calls determine: <<>>
\* while the last answer lets it go on
C21_ResultOf(answers) ==
    LET last == IF answers = <<>> THEN "" ELSE answers[Len(answers)]
    IN  CASE last = "threw" -> <<Failure("An unexpected error occurred", "fetch failed")>>
          [] last = "no file" -> <<NoFileResult>>
          [] last = "invalid type" -> <<InvalidTypeResult>>
          [] last = "no target" -> <<NoTargetResult>>
          [] last = "refused" -> <<Failure("Failed to upload file",
                                           "Upload failed with status 500")>>
          [] last = "no file id" -> <<NoFileIdResult>>
          [] last = "FAILED" -> <<ProcessingFailedResult>>
          [] last = "timeout" -> <<TimeoutResult>>
          [] last = "no profile" -> <<NoProfileResult>>
          [] last = "rejected" -> <<Failure("Failed to apply font to checkout", "invalid")>>
          [] last = "bound" -> <<SuccessResult>>
          [] OTHER -> <<>>

\* the two invocations never hold the same target or the same asset id
C21_Disjoint ==
    \A i, j \in Invocations :
        i # j =>
            /\ invocations[i].stagedTarget = <<>>
                 \/ invocations[i].stagedTarget # invocations[j].stagedTarget
            /\ invocations[i].fileId = Undefined
                 \/ invocations[i].fileId # invocations[j].fileId

(* C21: in every interleaving of two concurrent invocations, each          *)
(* invocation transmits to, registers, polls and binds only the upload     *)
(* target and the asset id the platform answered to it, its result is the  *)
(* one its own answers determine, and the two hold no target or id in      *)
(* common.                                                                 *)
C21_Independent ==
    /\ \A i \in Invocations :
          /\ C21_OwnResources(i)
          /\ invocations[i].returned = C21_ResultOf(invocations[i].answers)
    /\ C21_Disjoint

\* both invocations succeeded, interleaved so that "a" got the first target
\* and the second file while "b" got the second target and the first file
C21_Witness ==
    /\ invocations["a"].returned = <<SuccessResult>>
    /\ invocations["b"].returned = <<SuccessResult>>
    /\ invocations["a"].obtainedTarget = <<IssuedTarget(1)>>
    /\ invocations["a"].obtainedId = <<StoredFileId(2)>>
    /\ C21_SentWith("a", "applyBinding") = {StoredFileId(2)}
    /\ C21_SentWith("b", "applyBinding") = {StoredFileId(1)}
    /\ C21_SentWith("b", "transmit") = {IssuedTarget(2).url}

\* the invocation has returned a result to its caller
Returned == Done /\ Len(returned) = 1

(* C22: provided every collaborator call eventually returns or throws,     *)
(* the invocation eventually returns, it returns exactly one result and    *)
(* that result never changes afterwards, whatever the platform answers     *)
(* (a platform that never reports READY or FAILED included).               *)
C22_Terminates ==
    /\ <>Returned
    /\ [](Done => Len(returned) = 1)
    /\ [][returned # <<>> => returned' = returned /\ pc' = "done"]_vars

\* the platform answered thirty status queries, none of them READY or
\* FAILED, and the invocation has returned the timeout result
C22_Witness ==
    /\ Returned
    /\ Count("queryAssetStatus") = maxAttempts
    /\ thrown = <<>>
    /\ FileStatus(fileNode) \notin {"READY", "FAILED"}
    /\ Result.message = "File processing timeout"

\* a status the poller does not act on
C23_Waiting(node) == FileStatus(node) \notin {"READY", "FAILED"}

\* this step is a status query that was answered (it did not throw)
C23_Answered ==
    /\ Len(calls') = Len(calls) + 1
    /\ calls'[Len(calls')] = "queryAssetStatus"
    /\ thrown' = <<>>

\* what a PENDING answer does: the loop goes on, one more attempt counted
C23_LikePending ==
    /\ pc' = "poll"
    /\ attempts' = attempts + 1
    /\ fileReady' = FALSE
    /\ returned' = <<>>

\* the invocation ended right after an answer that is neither READY nor
\* FAILED
C23_EndedWaiting ==
    /\ Done
    /\ thrown = <<>>
    /\ Called("queryAssetStatus")
    /\ LastCall = "queryAssetStatus"
    /\ C23_Waiting(fileNode)

(* C23: a status query answered with no node, no status, or a status other *)
(* than READY and FAILED leaves the poller exactly where a PENDING answer  *)
(* leaves it (still polling, one more attempt counted, nothing returned),  *)
(* and an invocation that ends after such an answer ends with the timeout  *)
(* result after 30 queries.                                                *)
C23_OtherStatusIsPending ==
    /\ [][C23_Answered /\ C23_Waiting(fileNode') => C23_LikePending]_vars
    /\ [](C23_EndedWaiting =>
            /\ returned = <<TimeoutResult>>
            /\ Count("queryAssetStatus") = maxAttempts)

\* thirty answers, the last one without a node and not all of them PENDING,
\* and the timeout result
C23_Witness ==
    /\ C23_EndedWaiting
    /\ ~fileNode.hasNode
    /\ ~allPending
    /\ returned = <<TimeoutResult>>

-----------------------------------------------------------------------------
(* The loader of the app index route (app._index.tsx, lines 14-131): it    *)
(* looks up the raffle discount function, asks whether the automatic       *)
(* discount is registered, and registers it when it is not.  Several       *)
(* requests of one shop run the loader at once; the shop's functions and   *)
(* discounts are the platform's.                                           *)

\* largest number of loader runs in flight at once
MaxLoaders == 2

Loaders == 1..MaxLoaders

\* line 12
RAFFLE_DISCOUNT_TITLE == "Raffle Discount"

Title_Raffle == <<"R", "a", "f", "f", "l", "e">>
Title_RAFFLE == <<"R", "A", "F", "F", "L", "E">>
Title_Tax    == <<"T", "a", "x">>

RaffleFunction == [id |-> "fn-raffle", title |-> Title_Raffle, apiType |-> "discount"]
UpperFunction  == [id |-> "fn-raffle", title |-> Title_RAFFLE, apiType |-> "discount"]
TaxFunction    == [id |-> "fn-tax", title |-> Title_Tax, apiType |-> "discount"]
CartFunction   == [id |-> "fn-cart", title |-> Title_Raffle, apiType |-> "cart_transform"]

\* data.shopifyFunctions.nodes the platform can hold
FunctionLists ==
    {<<>>, <<RaffleFunction>>, <<CartFunction, TaxFunction, UpperFunction>>,
     <<TaxFunction>>}

\* discounts the shop can hold before any loader runs
RegisteredDiscount == [title |-> RAFFLE_DISCOUNT_TITLE, functionId |-> "fn-raffle"]
OtherDiscount == [title |-> RAFFLE_DISCOUNT_TITLE, functionId |-> "fn-tax"]
DiscountLists == {<<>>, <<RegisteredDiscount>>, <<OtherDiscount>>}

\* lines 36-40: functions.find(...), as <<>> or <<function>>
RECURSIVE FindRaffleFunction(_)
FindRaffleFunction(functions) ==
    IF functions = <<>> THEN <<>>
    ELSE IF /\ Head(functions).apiType = "discount"
            /\ Contains(ToLowerCase(Head(functions).title), <<"r", "a", "f", "f", "l", "e">>)
         THEN <<Head(functions)>>
         ELSE FindRaffleFunction(Tail(functions))

\* lines 78-84: existingDiscounts.some(...)
IsAlreadyRegistered(existingDiscounts, raffleFunction) ==
    \E k \in 1..Len(existingDiscounts) :
        /\ existingDiscounts[k].title = RAFFLE_DISCOUNT_TITLE
        /\ existingDiscounts[k].functionId = raffleFunction.id

\* lines 104-116: the input of discountAutomaticAppCreate
AutomaticAppDiscount(raffleFunction) ==
    [title |-> RAFFLE_DISCOUNT_TITLE, functionId |-> raffleFunction.id]

\* line 14: a request has just entered the loader
Requested ==
    [pc |-> "authenticate", raffleFunction |-> <<>>, isAlreadyRegistered |-> FALSE,
     checked |-> FALSE, mutations |-> 0, userErrors |-> <<>>]

LoaderInit ==
    /\ loaders = [l \in Loaders |-> Requested]
    /\ shopifyFunctions \in FunctionLists
    /\ automaticDiscounts \in DiscountLists
    /\ createdDiscounts = 0
    /\ Elsewhere({"loader"})

\* an await of the loader rejects: the loader has no try block
LoaderThrows(l) == loaders' = [loaders EXCEPT ![l].pc = "threw"]

\* line 15: authenticate.admin(request)
LoaderAuthenticate(l) ==
    /\ loaders[l].pc = "authenticate"
    /\ Only({"loader"})
    /\ \/ LoaderThrows(l)
       \/ loaders' = [loaders EXCEPT ![l].pc = "shopifyFunctions"]
    /\ UNCHANGED <<shopifyFunctions, automaticDiscounts, createdDiscounts>>

\* lines 18-51: the functions query and the search for the raffle function
GetShopifyFunctions(l) ==
    /\ loaders[l].pc = "shopifyFunctions"
    /\ Only({"loader"})
    /\ \/ LoaderThrows(l)
       \/ LET raffleFunction == FindRaffleFunction(shopifyFunctions)
          IN  loaders' = [loaders EXCEPT ![l] =
                  IF raffleFunction = <<>>
                  THEN [@ EXCEPT !.pc = "done"]
                  ELSE [@ EXCEPT !.pc = "automaticDiscountNodes",
                                 !.raffleFunction = raffleFunction]]
    /\ UNCHANGED <<shopifyFunctions, automaticDiscounts, createdDiscounts>>

\* lines 54-86: the existence check
GetRaffleDiscount(l) ==
    /\ loaders[l].pc = "automaticDiscountNodes"
    /\ Only({"loader"})
    /\ \/ LoaderThrows(l)
       \/ LET found == IsAlreadyRegistered(automaticDiscounts, loaders[l].raffleFunction[1])
          IN  loaders' = [loaders EXCEPT ![l] =
                  [@ EXCEPT !.isAlreadyRegistered = found,
                            !.checked = TRUE,
                            !.pc = IF ~found THEN "discountAutomaticAppCreate" ELSE "done"]]
    /\ UNCHANGED <<shopifyFunctions, automaticDiscounts, createdDiscounts>>

\* lines 86-130: the create mutation and its userErrors
CreateRaffleDiscount(l) ==
    /\ loaders[l].pc = "discountAutomaticAppCreate"
    /\ Only({"loader"})
    /\ \/ \* the mutation is not delivered
          /\ LoaderThrows(l)
          /\ UNCHANGED <<automaticDiscounts, createdDiscounts>>
       \/ \* the platform refuses it
          /\ loaders' = [loaders EXCEPT ![l] =
                [@ EXCEPT !.pc = "done", !.mutations = @ + 1, !.userErrors = <<"invalid">>]]
          /\ UNCHANGED <<automaticDiscounts, createdDiscounts>>
       \/ \* the platform creates the discount
          /\ loaders' = [loaders EXCEPT ![l] = [@ EXCEPT !.pc = "done", !.mutations = @ + 1]]
          /\ automaticDiscounts' =
                Append(automaticDiscounts, AutomaticAppDiscount(loaders[l].raffleFunction[1]))
          /\ createdDiscounts' = createdDiscounts + 1
    /\ UNCHANGED shopifyFunctions

LoaderNext ==
    \E l \in Loaders :
        \/ LoaderAuthenticate(l)
        \/ GetShopifyFunctions(l)
        \/ GetRaffleDiscount(l)
        \/ CreateRaffleDiscount(l)

LoaderSpec == LoaderInit /\ [][LoaderNext]_vars

\* the discounts of the shop that are titled "Raffle Discount" and bound to
\* the raffle function
C24_Registered ==
    {k \in 1..Len(automaticDiscounts) :
        /\ automaticDiscounts[k].title = "Raffle Discount"
        /\ automaticDiscounts[k].functionId = "fn-raffle"}

(* C24: whatever the number of loader runs and their interleaving, at most *)
(* one automatic discount titled "Raffle Discount" bound to the raffle     *)
(* function is created and the shop never holds two; a run issues the      *)
(* create mutation only after its existence check found none, and a run    *)
(* that found it registered issues none.                                   *)
C24_AtMostOneCreated ==
    /\ createdDiscounts <= 1
    /\ Cardinality(C24_Registered) <= 1
    /\ \A l \in Loaders :
          /\ loaders[l].mutations > 0 => loaders[l].checked /\ ~loaders[l].isAlreadyRegistered
          /\ loaders[l].isAlreadyRegistered => loaders[l].mutations = 0

-----------------------------------------------------------------------------
(* JavaScript numbers and their conversions from and to strings, as far as *)
(* the raffle needs them.  A finite number is the decimal m * 10^e in      *)
(* lowest terms (e <= 0, and m not a multiple of 10 unless e = 0): the     *)
(* strings used here have few digits, so the binary rounding of a double   *)
(* never shows.                                                            *)

NaN == [kind |-> "NaN", m |-> 0, e |-> 0]
Infinity == [kind |-> "Infinity", m |-> 1, e |-> 0]
MinusInfinity == [kind |-> "Infinity", m |-> -1, e |-> 0]

RECURSIVE Pow10(_)
Pow10(k) == IF k <= 0 THEN 1 ELSE 10 * Pow10(k - 1)

\* the number m * 10^e, m >= 0, in lowest terms
RECURSIVE Decimal(_, _)
Decimal(m, e) ==
    IF m = 0 THEN [kind |-> "finite", m |-> 0, e |-> 0]
    ELSE IF e > 0 THEN Decimal(m * 10, e - 1)
    ELSE IF e < 0 /\ m % 10 = 0 THEN Decimal(m \div 10, e + 1)
    ELSE [kind |-> "finite", m |-> m, e |-> e]

Integer(n) == IF n < 0 THEN [Decimal(-n, 0) EXCEPT !.m = n] ELSE Decimal(n, 0)
Negated(x) == [x EXCEPT !.m = -x.m]

isNaN(x) == x.kind = "NaN"

\* x < y on numbers; every comparison with NaN is false
LessThan(x, y) ==
    IF isNaN(x) \/ isNaN(y) THEN FALSE
    ELSE IF x.kind = "Infinity" THEN x.m < 0 /\ y # x
    ELSE IF y.kind = "Infinity" THEN y.m > 0
    ELSE x.m * Pow10(x.e - y.e) < y.m * Pow10(y.e - x.e)

\* the character at position i of a string, "" past its ends
CharAt(string, i) == IF 1 <= i /\ i <= Len(string) THEN SubSeq(string, i, i) ELSE ""

WhiteSpace == {" ", "\t", "\n"}
DecimalDigits == {"0", "1", "2", "3", "4", "5", "6", "7", "8", "9"}

DigitValue(c) ==
    CASE c = "0" -> 0 [] c = "1" -> 1 [] c = "2" -> 2 [] c = "3" -> 3 [] c = "4" -> 4
      [] c = "5" -> 5 [] c = "6" -> 6 [] c = "7" -> 7 [] c = "8" -> 8 [] c = "9" -> 9

\* the first position at or after i that holds no white space / no digit
RECURSIVE SkipWhiteSpace(_, _)
SkipWhiteSpace(string, i) ==
    IF CharAt(string, i) \in WhiteSpace THEN SkipWhiteSpace(string, i + 1) ELSE i
RECURSIVE DigitsEnd(_, _)
DigitsEnd(string, i) ==
    IF CharAt(string, i) \in DecimalDigits THEN DigitsEnd(string, i + 1) ELSE i

\* the value of the digits at positions i .. j-1
RECURSIVE DigitsValue(_, _, _)
DigitsValue(string, i, j) ==
    IF i >= j THEN 0
    ELSE DigitsValue(string, i, j - 1) * 10 + DigitValue(CharAt(string, j - 1))

\* parseFloat: white space, a sign, then the longest prefix that is
\* "Infinity" or a decimal literal (digits, a fraction, an exponent)
parseFloat(string) ==
    LET start == SkipWhiteSpace(string, 1)
        sign == CharAt(string, start)
        first == IF sign \in {"+", "-"} THEN start + 1 ELSE start
        intEnd == DigitsEnd(string, first)
        hasPoint == CharAt(string, intEnd) = "."
        fracEnd == IF hasPoint THEN DigitsEnd(string, intEnd + 1) ELSE intEnd
        fracDigits == IF hasPoint THEN fracEnd - (intEnd + 1) ELSE 0
        noDigits == intEnd = first /\ fracDigits = 0
        expSign == CharAt(string, fracEnd + 1)
        expFirst == IF expSign \in {"+", "-"} THEN fracEnd + 2 ELSE fracEnd + 1
        expEnd == DigitsEnd(string, expFirst)
        hasExp == CharAt(string, fracEnd) \in {"e", "E"} /\ expEnd > expFirst
        exponent == IF ~hasExp THEN 0
                    ELSE IF expSign = "-" THEN -DigitsValue(string, expFirst, expEnd)
                    ELSE DigitsValue(string, expFirst, expEnd)
        mantissa == DigitsValue(string, first, intEnd) * Pow10(fracDigits)
                    + (IF hasPoint THEN DigitsValue(string, intEnd + 1, fracEnd) ELSE 0)
        magnitude ==
            IF first + 7 <= Len(string) /\ SubSeq(string, first, first + 7) = "Infinity"
            THEN Infinity
            ELSE IF noDigits THEN NaN
            ELSE IF exponent - fracDigits >= 0
                 THEN Decimal(mantissa * Pow10(exponent - fracDigits), 0)
                 ELSE Decimal(mantissa, exponent - fracDigits)
    IN  IF sign = "-" /\ ~isNaN(magnitude) THEN Negated(magnitude) ELSE magnitude

\* the digits of n, at least `width` of them
RECURSIVE Padded(_, _)
Padded(n, width) ==
    IF Len(ToString(n)) >= width THEN ToString(n) ELSE "0" \o Padded(n, width - 1)

\* Number.prototype.toString and template interpolation, for the numbers
\* that print without an exponent
NumberToString(x) ==
    LET abs == IF x.m < 0 THEN -x.m ELSE x.m
        unit == Pow10(-x.e)
        digits == IF x.e = 0 THEN ToString(abs)
                  ELSE ToString(abs \div unit) \o "." \o Padded(abs % unit, -x.e)
    IN  IF isNaN(x) THEN "NaN"
        ELSE IF x.kind = "Infinity" THEN (IF x.m < 0 THEN "-Infinity" ELSE "Infinity")
        ELSE IF x.m < 0 THEN "-" \o digits ELSE digits

-----------------------------------------------------------------------------
(* The discount function (part_002, lines 16-73).                          *)

\* input.discount.discountClasses
DiscountClassLists ==
    {<<>>, <<"ORDER">>, <<"PRODUCT">>, <<"PRODUCT", "ORDER">>, <<"SHIPPING", "PRODUCT">>}

\* input.cart.attribute.value: null (Undefined) or a string
AttributeValues ==
    {Undefined, "", "5", "10", "7", "4", "11", "4.99", "10.01", "7.5", "9.25", "10.0",
     "abc", "7abc", " 8", "1e1", "50e-1", "5e", "Infinity", "-7", ".5", "5.", "+6",
     "0", "100", "6%", "1e2"}

\* input.cart.attribute: null (<<>>) or an attribute
Attributes == {<<>>} \cup {<<[value |-> v]>> : v \in AttributeValues}

RunInputs ==
    {[discount |-> [discountClasses |-> c], cart |-> [attribute |-> a]] :
        c \in DiscountClassLists, a \in Attributes}

\* Array.prototype.includes
Includes(array, x) == \E k \in 1..Len(array) : array[k] = x

\* lines 38-42: the range check
OutOfRangeExclusive(discountPercentage) ==
    \/ isNaN(discountPercentage)
    \/ ~LessThan(Integer(5), discountPercentage)
    \/ ~LessThan(discountPercentage, Integer(10))
OutOfRange(discountPercentage) ==
    \/ isNaN(discountPercentage)
    \/ LessThan(discountPercentage, Integer(5))
    \/ LessThan(Integer(10), discountPercentage)

\* lines 47-72: the operations of an applied discount
OrderDiscount(discountPercentage) ==
    [operations |-> <<
        [orderDiscountsAdd |->
            [candidates |-> <<
                [message |-> NumberToString(discountPercentage) \o "% RAFFLE DISCOUNT",
                 targets |-> <<[orderSubtotal |-> [excludedCartLineIds |-> <<>>]]>>,
                 value |-> [percentage |-> [value |-> discountPercentage]]]>>,
             selectionStrategy |-> "FIRST"]]>>]

\* lines 16-73
cartLinesDiscountsGenerateRun(in) ==
    LET hasOrderDiscountClass == Includes(in.discount.discountClasses, "ORDER")
        raffleDiscountAttribute == in.cart.attribute
        discountPercentage == parseFloat(raffleDiscountAttribute[1].value)
    IN  IF ~hasOrderDiscountClass THEN [operations |-> <<>>]
        ELSE IF raffleDiscountAttribute = <<>> \/ Falsy(raffleDiscountAttribute[1].value)
        THEN [operations |-> <<>>]
        ELSE IF OutOfRange(discountPercentage) THEN [operations |-> <<>>]
        ELSE OrderDiscount(discountPercentage)

\* the platform is about to run the function on some cart
FunctionInit ==
    /\ input \in {<<i>> : i \in RunInputs}
    /\ output = <<>>
    /\ Elsewhere({"function"})

\* the platform runs the function
Run ==
    /\ input # <<>>
    /\ output = <<>>
    /\ output' = <<cartLinesDiscountsGenerateRun(input[1])>>
    /\ UNCHANGED input
    /\ Only({"function"})

FunctionNext == Run

FunctionSpec == FunctionInit /\ [][FunctionNext]_vars

\* the candidates of a result of the function, over all its operations
C25_Candidates(result) ==
    {c \in UNION {{op.orderDiscountsAdd.candidates[k] :
                      k \in 1..Len(op.orderDiscountsAdd.candidates)} :
                  op \in {result.operations[k] : k \in 1..Len(result.operations)}} : TRUE}

\* the discount classes include ORDER, the attribute is present and not
\* empty, and it parses to a number from 5 to 10
C25_Eligible ==
    LET in == input[1]
        attribute == in.cart.attribute
    IN  /\ \E k \in 1..Len(in.discount.discountClasses) :
              in.discount.discountClasses[k] = "ORDER"
        /\ attribute # <<>>
        /\ attribute[1].value \notin {Undefined, ""}
        /\ ~isNaN(parseFloat(attribute[1].value))
        /\ ~LessThan(parseFloat(attribute[1].value), Integer(5))
        /\ ~LessThan(Integer(10), parseFloat(attribute[1].value))

(* C25: the function returns exactly one order-subtotal discount           *)
(* candidate, whose percentage is the parsed attribute value, if and only  *)
(* if the discount classes include ORDER and the attribute is present, not *)
(* empty, and parses to a number from 5 to 10; otherwise it returns no     *)
(* operations; no candidate it returns has a percentage below 5 or above   *)
(* 10.                                                                     *)
C25_RangeCheck ==
    output # <<>> =>
        /\ IF C25_Eligible
           THEN /\ Len(output[1].operations) = 1
                /\ Len(output[1].operations[1].orderDiscountsAdd.candidates) = 1
                /\ \A c \in C25_Candidates(output[1]) :
                      /\ c.value.percentage.value = parseFloat(input[1].cart.attribute[1].value)
                      /\ Len(c.targets) = 1
                      /\ DOMAIN c.targets[1] = {"orderSubtotal"}
           ELSE output[1].operations = <<>>
        /\ \A c \in C25_Candidates(output[1]) :
              /\ c.value.percentage.value.kind = "finite"
              /\ c.value.percentage.value.m >= 5 * Pow10(-c.value.percentage.value.e)
              /\ c.value.percentage.value.m <= 10 * Pow10(-c.value.percentage.value.e)

\* the attribute "9.25" with the classes PRODUCT and ORDER: a 9.25 % discount
C25_Witness ==
    /\ output # <<>>
    /\ input[1].discount.discountClasses = <<"PRODUCT", "ORDER">>
    /\ input[1].cart.attribute = <<[value |-> "9.25"]>>
    /\ C25_Eligible
    /\ \E c \in C25_Candidates(output[1]) :
          /\ c.value.percentage.value = [kind |-> "finite", m |-> 925, e |-> -2]
          /\ c.message = "9.25% RAFFLE DISCOUNT"

-----------------------------------------------------------------------------
(* The raffle: the proxy endpoint (api.raffle.tsx, lines 11-29), the       *)
(* storefront script (raffle.js) and, at checkout, the discount function   *)
(* run on the cart the script has written to.                              *)

\* most calls of tryLuck in one page view
MaxTryLuck == 2

\* Math.random() is one of 0/RandomSteps .. (RandomSteps-1)/RandomSteps
RandomSteps == 12

RandomDraws == 0..(RandomSteps - 1)

\* api.raffle.tsx, line 17: Math.floor(Math.random() * 6) + 5, for the draw
\* k/RandomSteps
RaffleDiscountUpToEleven(k) == ((k * 7) \div RandomSteps) + 5
RaffleDiscount(k) == ((k * 6) \div RandomSteps) + 5

\* api.raffle.tsx, line 21: JSON.stringify({ discount })
JsonStringify(discount) == "{\"discount\":" \o ToString(discount) \o "}"

\* what the app proxy answers the script: the endpoint's response, the
\* status of a request the endpoint refused or failed on, a body that is an
\* object without discount, a body that is no JSON
ProxyResponses ==
    {[status |-> 200, body |-> JsonStringify(RaffleDiscount(k))] : k \in RandomDraws}
    \cup {[status |-> 401, body |-> ""], [status |-> 500, body |-> ""],
          [status |-> 200, body |-> "{}"], [status |-> 200, body |-> "<html>"]}

\* what the cart endpoint answers the script
CartResponses == {[status |-> st, body |-> "{}"] : st \in {200, 422, 500}}

\* raffle.js, lines 224, 252: response.ok
FetchOkAnyStatus(response) == response.status > 0
FetchOk(response) == response.status >= 200 /\ response.status <= 299

\* raffle.js, line 228: response.json() for the bodies above: <<>> when it
\* throws, else <<data>> with data.discount absent (<<>>) or a number
JsonParse(body) ==
    IF body = "{}" THEN <<[discount |-> <<>>]>>
    ELSE IF /\ Len(body) > 13
            /\ SubSeq(body, 1, 12) = "{\"discount\":"
            /\ CharAt(body, Len(body)) = "}"
            /\ DigitsEnd(body, 13) = Len(body)
         THEN <<[discount |-> <<parseFloat(SubSeq(body, 13, Len(body) - 1))>>]>>
         ELSE <<>>

\* parseInt(string, 10)
parseInt(string) ==
    LET start == SkipWhiteSpace(string, 1)
        sign == CharAt(string, start)
        first == IF sign \in {"+", "-"} THEN start + 1 ELSE start
        end == DigitsEnd(string, first)
    IN  IF end = first THEN NaN
        ELSE IF sign = "-" THEN Negated(Decimal(DigitsValue(string, first, end), 0))
        ELSE Decimal(DigitsValue(string, first, end), 0)

\* String(value) of an optional number
String(value) == IF value = <<>> THEN "undefined" ELSE NumberToString(value[1])

\* truthiness of an optional number
Truthy(value) == value # <<>> /\ ~isNaN(value[1]) /\ value[1].m # 0

\* raffle.js, lines 216-238: fetchRaffleDiscount on the response to its
\* request (<<>>: fetch rejected); <<>> when it throws, else <<discount>>
FetchRaffleDiscount(response) ==
    IF response = <<>> THEN <<>>
    ELSE IF ~FetchOk(response[1]) THEN <<>>
    ELSE LET data == JsonParse(response[1].body)
         IN  IF data = <<>> THEN <<>>
             ELSE LET discount == parseInt(String(data[1].discount))
                  IN  IF isNaN(discount) THEN <<>> ELSE <<discount>>

\* raffle.js, lines 17-22 and 52-57: the state after init()
InitialState(storedDiscount) ==
    [isOpen |-> FALSE,
     isLoading |-> FALSE,
     hasPlayed |-> (storedDiscount # <<>> /\ storedDiscount[1] # ""),
     discountAmount |-> IF storedDiscount # <<>> /\ storedDiscount[1] # ""
                        THEN <<parseInt(storedDiscount[1])>> ELSE <<>>]

\* the page has loaded and init() has run; the session may hold the
\* discount of an earlier page view, then the cart holds it too
RaffleInit ==
    /\ sessionStorage \in {<<>>, <<"7">>}
    /\ state = InitialState(sessionStorage)
    /\ cart = sessionStorage
    /\ shownState = "none"
    /\ discountValue = <<>>
    /\ loadingClass = FALSE
    /\ runs = <<>>
    /\ requests = <<>>
    /\ lastResponse = <<>>
    /\ tryLuckCalls = 0
    /\ Elsewhere({"raffle"})

\* raffle.js, lines 120-140
OpenModal ==
    /\ state # <<>>
    /\ ~state.isOpen
    /\ state' = [state EXCEPT !.isOpen = TRUE]
    /\ IF state.hasPlayed /\ Truthy(state.discountAmount)
       THEN /\ discountValue' = <<String(state.discountAmount)>>
            /\ shownState' = "success"
       ELSE /\ shownState' = "initial"
            /\ UNCHANGED discountValue
    /\ UNCHANGED <<sessionStorage, loadingClass, runs, requests, lastResponse, cart,
                   tryLuckCalls>>
    /\ Only({"raffle"})

\* raffle.js, lines 145-155
CloseModal ==
    /\ state # <<>>
    /\ state.isOpen
    /\ state' = [state EXCEPT !.isOpen = FALSE]
    /\ UNCHANGED <<sessionStorage, shownState, discountValue, loadingClass, runs,
                   requests, lastResponse, cart, tryLuckCalls>>
    /\ Only({"raffle"})

\* raffle.js, lines 82-86: the retry button
Retry ==
    /\ state # <<>>
    /\ state.isOpen
    /\ shownState = "error"
    /\ shownState' = "initial"
    /\ UNCHANGED <<state, sessionStorage, discountValue, loadingClass, runs, requests,
                   lastResponse, cart, tryLuckCalls>>
    /\ Only({"raffle"})

\* raffle.js, line 175: if (state.isLoading) return
BusyNever == FALSE
Busy == state.isLoading

\* raffle.js, lines 207-210: the finally block
Finally(s) == [s EXCEPT !.isLoading = FALSE]

\* raffle.js, lines 174-187: a call of tryLuck, up to its first await
TryLuck ==
    /\ state # <<>>
    /\ tryLuckCalls < MaxTryLuck
    /\ tryLuckCalls' = tryLuckCalls + 1
    /\ IF Busy
       THEN UNCHANGED <<state, shownState, loadingClass, runs, requests>>
       ELSE /\ state' = [state EXCEPT !.isLoading = TRUE]
            /\ loadingClass' = TRUE
            /\ shownState' = "loading"
            /\ runs' = Append(runs, [pc |-> "fetch", discount |-> <<>>])
            /\ requests' = Append(requests, [run |-> Len(runs) + 1, url |-> "proxyUrl"])
    /\ UNCHANGED <<sessionStorage, discountValue, lastResponse, cart>>
    /\ Only({"raffle"})

\* raffle.js, lines 204-210: catch and finally of run k; the locals of a
\* run that has ended are gone
Fails(k) ==
    /\ runs' = [runs EXCEPT ![k] = [pc |-> "error", discount |-> <<>>]]
    /\ shownState' = "error"
    /\ state' = Finally(state)
    /\ loadingClass' = FALSE

\* raffle.js, lines 187-190 and 216-250: the proxy answers run k
ProxyResponds(k) ==
    /\ runs[k].pc = "fetch"
    /\ \E response \in {<<>>} \cup {<<r>> : r \in ProxyResponses} :
         /\ lastResponse' = [run |-> k, url |-> "proxyUrl", response |-> response]
         /\ LET discount == FetchRaffleDiscount(response)
            IN  IF discount = <<>>
                THEN /\ Fails(k)
                     /\ UNCHANGED requests
                ELSE /\ runs' = [runs EXCEPT ![k] = [pc |-> "cart", discount |-> discount]]
                     /\ requests' = Append(requests, [run |-> k, url |-> "cartUpdateUrl"])
                     /\ UNCHANGED <<state, shownState, loadingClass>>
    /\ UNCHANGED <<sessionStorage, discountValue, cart, tryLuckCalls>>
    /\ Only({"raffle"})

\* raffle.js, lines 190-210 and 252-258: the cart endpoint answers run k
CartResponds(k) ==
    /\ runs[k].pc = "cart"
    /\ LET discount == runs[k].discount IN
       \/ \* fetch rejects; the cart may have taken the update all the same
          /\ lastResponse' = [run |-> k, url |-> "cartUpdateUrl", response |-> <<>>]
          /\ cart' \in {cart, <<String(discount)>>}
          /\ Fails(k)
          /\ UNCHANGED <<sessionStorage, discountValue>>
       \/ \E r \in CartResponses :
            /\ lastResponse' = [run |-> k, url |-> "cartUpdateUrl", response |-> <<r>>]
            /\ IF ~FetchOk(r)
               THEN /\ Fails(k)
                    /\ UNCHANGED <<sessionStorage, discountValue, cart>>
               ELSE /\ cart' = <<String(discount)>>
                    /\ \/ \* line 193: sessionStorage.setItem throws
                          /\ Fails(k)
                          /\ UNCHANGED <<sessionStorage, discountValue>>
                       \/ /\ sessionStorage' = <<String(discount)>>
                          /\ state' = Finally([state EXCEPT !.hasPlayed = TRUE,
                                                            !.discountAmount = discount])
                          /\ discountValue' = <<String(discount)>>
                          /\ shownState' = "success"
                          /\ loadingClass' = FALSE
                          /\ runs' = [runs EXCEPT ![k] = [pc |-> "success", discount |-> <<>>]]
    /\ UNCHANGED <<requests, tryLuckCalls>>
    /\ Only({"raffle"})

\* the buyer checks out: the platform runs the discount function on the
\* cart as it is now (the discount was registered with the class ORDER)
Checkout ==
    /\ state # <<>>
    /\ LET attribute == IF cart = <<>> THEN <<>> ELSE <<[value |-> cart[1]]>>
       IN  /\ IF input = <<>> THEN TRUE ELSE input[1].cart.attribute # attribute
           /\ input' = <<[discount |-> [discountClasses |-> <<"ORDER">>],
                          cart |-> [attribute |-> attribute]]>>
    /\ output' = <<cartLinesDiscountsGenerateRun(input'[1])>>
    /\ UNCHANGED raffleVars
    /\ Only({"raffle", "function"})

RaffleNext ==
    \/ OpenModal
    \/ CloseModal
    \/ Retry
    \/ TryLuck
    \/ \E k \in 1..Len(runs) : ProxyResponds(k)
    \/ \E k \in 1..Len(runs) : CartResponds(k)
    \/ Checkout

RaffleSpec == RaffleInit /\ [][RaffleNext]_vars

-----------------------------------------------------------------------------
(* C26-C28: the raffle.                                                    *)

\* the runs of tryLuck that have started and not ended
InFlight == {k \in 1..Len(runs) : runs[k].pc \in {"fetch", "cart"}}

\* the body the endpoint sends for the discount n
C26_Body(n) == "{\"discount\":" \o ToString(n) \o "}"

\* a response of the proxy whose body carries a discount
C26_FromEndpoint ==
    /\ lastResponse # <<>>
    /\ lastResponse.url = "proxyUrl"
    /\ lastResponse.response # <<>>
    /\ lastResponse.response[1].status = 200
    /\ Len(lastResponse.response[1].body) > 13

\* what holds in every state of the round trip
C26_Values ==
    /\ C26_FromEndpoint =>
          \E n \in 5..10 : lastResponse.response[1].body = C26_Body(n)
    /\ \A k \in 1..Len(runs) : runs[k].pc = "cart" =>
          /\ lastResponse.run = k
          /\ \E n \in 5..10 :
                /\ lastResponse.response[1].body = C26_Body(n)
                /\ runs[k].discount = <<[kind |-> "finite", m |-> n, e |-> 0]>>
    /\ cart # <<>> => \E n \in 5..10 : cart[1] = ToString(n)
    /\ (output # <<>> /\ input[1].cart.attribute # <<>>) =>
          \E n \in 5..10 :
             /\ input[1].cart.attribute[1].value = ToString(n)
             /\ Len(output[1].operations) = 1
             /\ Len(output[1].operations[1].orderDiscountsAdd.candidates) = 1
             /\ output[1].operations[1].orderDiscountsAdd.candidates[1].value.percentage.value
                   = [kind |-> "finite", m |-> n, e |-> 0]

\* what the script writes to the cart is the decimal string of the
\* discount it parsed, and checkout hands the cart's string to the function
C26_Writes ==
    /\ cart' # cart =>
          \E k \in 1..Len(runs), n \in 5..10 :
             /\ runs[k].pc = "cart"
             /\ runs[k].discount = <<[kind |-> "finite", m |-> n, e |-> 0]>>
             /\ cart' = <<ToString(n)>>
    /\ input' # input =>
          input'[1].cart.attribute
              = IF cart = <<>> THEN <<>> ELSE <<[value |-> cart[1]]>>

(* C26: every discount the raffle proxy endpoint returns is an integer     *)
(* from 5 to 10; the script parses it to that integer, writes its decimal  *)
(* string as the raffle_discount_amount cart attribute, and the discount   *)
(* function, run on that cart, passes its range check and returns exactly  *)
(* one candidate with exactly that percentage.                             *)
C26_RoundTrip == []C26_Values /\ [][C26_Writes]_vars

\* the endpoint drew 10, the script wrote "10", the function applies 10 %
C26_Witness ==
    /\ output # <<>>
    /\ cart = <<"10">>
    /\ state.discountAmount = <<[kind |-> "finite", m |-> 10, e |-> 0]>>
    /\ input[1].cart.attribute = <<[value |-> "10"]>>
    /\ output[1].operations[1].orderDiscountsAdd.candidates[1].value.percentage.value
          = [kind |-> "finite", m |-> 10, e |-> 0]
    /\ output[1].operations[1].orderDiscountsAdd.candidates[1].message
          = "10% RAFFLE DISCOUNT"

\* the variables a run of tryLuck writes, the counter of calls apart
C27_Effects == <<state, shownState, loadingClass, runs, requests, cart,
                 sessionStorage, discountValue>>

\* at most one run is in flight, and isLoading says whether one is
C27_OneInFlight ==
    /\ Cardinality(InFlight) <= 1
    /\ state.isLoading <=> InFlight # {}

C27_Steps ==
    /\ \* a call made while isLoading is true does nothing
       (tryLuckCalls' # tryLuckCalls /\ state.isLoading) => UNCHANGED C27_Effects
    /\ \* a call made while isLoading is false starts a run
       (tryLuckCalls' # tryLuckCalls /\ ~state.isLoading) =>
          /\ Len(runs') = Len(runs) + 1
          /\ runs'[Len(runs')].pc = "fetch"
          /\ state'.isLoading
    /\ \* the end of a run, in success or in error, resets isLoading
       \A k \in InFlight :
          runs'[k].pc \in {"success", "error"} =>
             /\ ~state'.isLoading
             /\ ~loadingClass'
    /\ \* requests are issued by the run in flight only
       requests' # requests =>
          /\ Len(requests') = Len(requests) + 1
          /\ InFlight' = {requests'[Len(requests')].run}

(* C27: at most one tryLuck run is in flight at any time; a tryLuck call   *)
(* made while isLoading is true issues no proxy request and no cart        *)
(* update; isLoading is false again after every run, ended in success or   *)
(* in error, and a call made then starts a run.                            *)
C27_SingleFlight == []C27_OneInFlight /\ [][C27_Steps]_vars

\* two calls: the second came while the first call's run was awaiting the
\* cart update and was ignored; the run has ended in success with its two
\* requests the only ones sent, and isLoading is false again
C27_Witness ==
    /\ tryLuckCalls = 2
    /\ Len(runs) = 1
    /\ runs[1].pc = "success"
    /\ Len(requests) = 2
    /\ requests[2].url = "cartUpdateUrl"
    /\ ~state.isLoading
    /\ ~loadingClass

\* the hasPlayed flag, the discount amount and the session-storage entry
C28_Written == <<state.hasPlayed, state.discountAmount, sessionStorage>>

\* the response just delivered is a failure of the request
C28_Failed ==
    \/ lastResponse'.response = <<>>
    \/ lastResponse'.response[1].status < 200
    \/ lastResponse'.response[1].status > 299

C28_Steps ==
    /\ \* written only by a run whose two requests have succeeded
       C28_Written' # C28_Written =>
          \E k \in InFlight :
             /\ runs[k].pc = "cart"
             /\ runs'[k].pc = "success"
             /\ lastResponse.run = k
             /\ lastResponse.url = "proxyUrl"
             /\ lastResponse.response # <<>>
             /\ lastResponse.response[1].status \in 200..299
             /\ lastResponse'.run = k
             /\ lastResponse'.url = "cartUpdateUrl"
             /\ ~C28_Failed
             /\ C28_Written' = <<TRUE, runs[k].discount, <<String(runs[k].discount)>>>>
             /\ shownState' = "success"
    /\ \* a failure of either request ends the run in the error view
       (lastResponse' # lastResponse /\ C28_Failed) =>
          /\ runs'[lastResponse'.run].pc = "error"
          /\ C28_Written' = C28_Written
          /\ shownState' = "error"
    /\ \* so does every other end in error
       \A k \in InFlight :
          runs'[k].pc = "error" =>
             /\ C28_Written' = C28_Written
             /\ shownState' = "error"

(* C28: hasPlayed, discountAmount and the raffle_discount session-storage  *)
(* entry are written only in the step that ends a tryLuck run whose proxy  *)
(* request and whose cart-attribute update have both succeeded; if either  *)
(* fails, the three are left unchanged and the error view is shown.        *)
C28_WrittenAfterBoth == [][C28_Steps]_vars

\* the proxy answered 8, the cart endpoint answered 422: nothing written
C28_Witness ==
    /\ Len(runs) = 1
    /\ runs[1].pc = "error"
    /\ lastResponse = [run |-> 1, url |-> "cartUpdateUrl",
                       response |-> <<[status |-> 422, body |-> "{}"]>>]
    /\ ~state.hasPlayed
    /\ state.discountAmount = <<>>
    /\ sessionStorage = <<>>
    /\ cart = <<>>
    /\ shownState = "error"

-----------------------------------------------------------------------------
(* The checkout age-verification extension (part_003).                     *)

\* most changes of the date field in one checkout
MaxChanges == 2

\* the values of the date field: empty, or a calendar date as YYYY-MM-DD
DateFieldValues ==
    {"", "1990-01-01", "2006-02-28", "2006-03-01", "2008-02-29", "2008-03-01",
     "2008-03-02", "2030-01-01"}

\* the local dates the buyer's clock may show
Todays ==
    {[year |-> 2026, month |-> 3, date |-> 1],
     [year |-> 2024, month |-> 2, date |-> 29]}

MinorMessage == "You must be 18 years or older to complete this purchase."

\* new Date("YYYY-MM-DD"): midnight UTC of that day
DateParse(string) ==
    [year |-> DigitsValue(string, 1, 5),
     month |-> DigitsValue(string, 6, 8),
     date |-> DigitsValue(string, 9, 11)]

DaysInMonth(year, month) ==
    IF month = 2
    THEN IF year % 4 = 0 /\ (year % 100 # 0 \/ year % 400 = 0) THEN 29 ELSE 28
    ELSE IF month \in {4, 6, 9, 11} THEN 30 ELSE 31

\* getFullYear(), getMonth() + 1 and getDate() of midnight UTC of `day`:
\* the same day in a zone at or east of UTC, the day before in a zone west
LocalDate(day, west) ==
    IF ~west THEN day
    ELSE IF day.date > 1 THEN [day EXCEPT !.date = day.date - 1]
    ELSE IF day.month > 1
         THEN [day EXCEPT !.month = day.month - 1,
                          !.date = DaysInMonth(day.year, day.month - 1)]
    ELSE [year |-> day.year - 1, month |-> 12, date |-> 31]

\* part_003, lines 14-29: <<>> for null
calculateAge(dateOfBirth) ==
    IF dateOfBirth = "" THEN <<>>
    ELSE LET today == clock.today
             birthDate == LocalDate(DateParse(dateOfBirth), clock.west)
             age == today.year - birthDate.year
             monthDiff == today.month - birthDate.month
         IN  IF monthDiff < 0 \/ (monthDiff = 0 /\ today.date < birthDate.date)
             THEN <<age - 1>>
             ELSE <<age>>

\* part_003, lines 68, 106: age !== null && age < 18
UnderAgeSixteen(age) == age # <<>> /\ age[1] < 16
UnderAge(age) == age # <<>> /\ age[1] < 18

\* part_003, lines 47-82: the callback given to useBuyerJourneyIntercept
Intercept(canBlockProgress, dateOfBirth) ==
    IF ~canBlockProgress THEN [behavior |-> "allow"]
    ELSE IF dateOfBirth = ""
    THEN [behavior |-> "block",
          reason |-> "Date of birth is required",
          errors |-> <<[message |-> "Please enter your date of birth to continue."]>>]
    ELSE IF UnderAge(calculateAge(dateOfBirth))
    THEN [behavior |-> "block",
          reason |-> "Age restriction",
          errors |-> <<[message |-> MinorMessage]>>]
    ELSE [behavior |-> "allow"]

\* the extension has been rendered for the first time
AgeInit ==
    /\ instructions \in {[canUpdateAttributes |-> b] : b \in BOOLEAN}
    /\ clock \in {[today |-> t, west |-> w] : t \in Todays, w \in BOOLEAN}
    /\ checkout = [dateOfBirth |-> "", validationError |-> ""]
    /\ attributeChanges = <<>>
    /\ attributes \in {<<>>, <<"1990-01-01">>}
    /\ intercepted = <<>>
    /\ Elsewhere({"age"})

\* part_003, lines 36-43: without canUpdateAttributes only a banner is
\* rendered: no date field, no intercept
Rendered == instructions # <<>> /\ instructions.canUpdateAttributes

\* the platform calls the intercept
BuyerJourneyIntercept ==
    /\ Rendered
    /\ \E canBlockProgress \in BOOLEAN :
         intercepted' = <<[canBlockProgress |-> canBlockProgress,
                           dateOfBirth |-> checkout.dateOfBirth,
                           result |-> Intercept(canBlockProgress, checkout.dateOfBirth)]>>
    /\ UNCHANGED <<instructions, clock, checkout, attributeChanges, attributes>>
    /\ Only({"age"})

\* part_003, lines 85-98 and 109-114: handleDateChange up to its await
HandleDateChange ==
    /\ Rendered
    /\ Len(attributeChanges) < MaxChanges
    /\ \E newDate \in DateFieldValues :
         /\ newDate # checkout.dateOfBirth
         /\ checkout' = [dateOfBirth |-> newDate, validationError |-> ""]
         /\ attributeChanges' = Append(attributeChanges,
                                       [pc |-> "await", newDate |-> newDate])
    /\ UNCHANGED <<instructions, clock, attributes, intercepted>>
    /\ Only({"age"})

\* part_003, lines 100-108 and 116-118: applyAttributeChange has answered
\* call k; the locals of a call that has ended are gone
AttributeChangeApplied(k) ==
    /\ attributeChanges[k].pc = "await"
    /\ LET newDate == attributeChanges[k].newDate IN
       /\ \E type \in {"success", "error"} :
            attributes' = IF type = "error" THEN attributes
                          ELSE IF newDate = "" THEN <<>> ELSE <<newDate>>
       /\ checkout' = IF newDate # "" /\ UnderAge(calculateAge(newDate))
                      THEN [checkout EXCEPT !.validationError = MinorMessage]
                      ELSE checkout
    /\ attributeChanges' = [attributeChanges EXCEPT ![k] = [pc |-> "done", newDate |-> ""]]
    /\ UNCHANGED <<instructions, clock, intercepted>>
    /\ Only({"age"})

\* part_003, lines 124-129
HandleDateInput ==
    /\ Rendered
    /\ checkout.validationError # ""
    /\ checkout' = [checkout EXCEPT !.validationError = ""]
    /\ UNCHANGED <<instructions, clock, attributeChanges, attributes, intercepted>>
    /\ Only({"age"})

AgeNext ==
    \/ BuyerJourneyIntercept
    \/ HandleDateChange
    \/ \E k \in 1..Len(attributeChanges) : AttributeChangeApplied(k)
    \/ HandleDateInput

AgeSpec == AgeInit /\ [][AgeNext]_vars

\* the n-th anniversary of the local day of birth is not after today
C29_Reached(birthDate, n) ==
    LET today == clock.today
        year == birthDate.year + n
    IN  \/ year < today.year
        \/ year = today.year /\ birthDate.month < today.month
        \/ year = today.year /\ birthDate.month = today.month
                             /\ birthDate.date <= today.date

\* the age in whole years on the buyer's clock
C29_Age(dateOfBirth) ==
    LET birthDate == LocalDate(DateParse(dateOfBirth), clock.west)
    IN  CHOOSE n \in -150..150 :
           C29_Reached(birthDate, n) /\ ~C29_Reached(birthDate, n + 1)

(* C29: when the intercept may block progress, it returns "allow" only if  *)
(* a date of birth has been entered and the age computed from it is 18 or  *)
(* more, and "block" with no date of birth or an age under 18; when it may *)
(* not block progress it returns "allow".                                  *)
C29_AdultsOnly ==
    intercepted # <<>> =>
        LET call == intercepted[1]
            adult == call.dateOfBirth # "" /\ C29_Age(call.dateOfBirth) >= 18
        IN  IF call.canBlockProgress
            THEN /\ call.result.behavior = (IF adult THEN "allow" ELSE "block")
                 /\ call.dateOfBirth = "" =>
                       call.result.reason = "Date of birth is required"
                 /\ (call.dateOfBirth # "" /\ ~adult) =>
                       call.result.reason = "Age restriction"
            ELSE call.result = [behavior |-> "allow"]

\* a buyer who turns 18 tomorrow is blocked
C29_Witness ==
    /\ intercepted # <<>>
    /\ clock = [today |-> [year |-> 2026, month |-> 3, date |-> 1], west |-> FALSE]
    /\ intercepted[1].canBlockProgress
    /\ intercepted[1].dateOfBirth = "2008-03-02"
    /\ intercepted[1].result.behavior = "block"
    /\ intercepted[1].result.reason = "Age restriction"
    /\ checkout.validationError = MinorMessage

-----------------------------------------------------------------------------
(* The admin date-of-birth block (BlockExtension.jsx).                     *)

\* most clicks on the submit button in one page view
MaxSubmits == 2

\* the values of the block's date field
AdminDates == {"", "1990-01-01", "2001-05-05"}

\* BlockExtension.jsx, line 94: data.selected[0]?.id, <<>> for undefined
OrderId == IF selected = <<>> THEN <<>> ELSE <<selected[1].id>>

\* what a call of the Admin API comes back with: Threw when fetch
\* rejected, the response was not ok (lines 27-29, 81-83) or its body was
\* no JSON, else the parsed body
Threw == [threw |-> TRUE]

\* the bodies the metafield query is answered with, the order's metafield
\* being `value`: the metafield, an order that is gone, no data at all
FetchAnswers(value) ==
    {[data |-> <<[order |-> <<[metafield |->
                    IF value = <<>> THEN <<>> ELSE <<[value |-> value[1]]>>]>>]>>],
     [data |-> <<[order |-> <<>>]>>],
     [data |-> <<>>]}

\* the bodies the metafieldsSet mutation is answered with
SubmitAnswers ==
    {[data |-> <<[metafieldsSet |-> <<[userErrors |-> <<>>]>>]>>],
     [data |-> <<[metafieldsSet |-> <<[userErrors |-> <<"Value is invalid">>]>>]>>],
     [data |-> <<[metafieldsSet |-> <<>>]>>],
     [data |-> <<>>]}

\* BlockExtension.jsx, line 109: result?.data?.order?.metafield?.value
ExistingDob(result) ==
    IF result.data = <<>> THEN <<>>
    ELSE IF result.data[1].order = <<>> THEN <<>>
    ELSE IF result.data[1].order[1].metafield = <<>> THEN <<>>
    ELSE <<result.data[1].order[1].metafield[1].value>>

\* BlockExtension.jsx, line 133:
\* result?.data?.metafieldsSet?.userErrors?.length > 0
HasSetUserErrors(result) ==
    IF result.data = <<>> THEN FALSE
    ELSE IF result.data[1].metafieldsSet = <<>> THEN FALSE
    ELSE Len(result.data[1].metafieldsSet[1].userErrors) > 0

\* BlockExtension.jsx, lines 146-197: what the block renders
View ==
    IF block.loading THEN "loading"
    ELSE IF block.isVerified THEN "verified"
    ELSE "form"

\* BlockExtension.jsx, lines 96-100: the block has rendered for the first
\* time and its effect has not run
AdminInit ==
    /\ selected \in {<<>>, <<[id |-> "gid://shopify/Order/1"]>>}
    /\ block = [loading |-> TRUE, submitting |-> FALSE, dateOfBirth |-> "",
                isVerified |-> FALSE, error |-> <<>>]
    /\ effect = "pending"
    /\ fetched = <<>>
    /\ submits = <<>>
    /\ metafield \in {<<>>, <<"1990-01-01">>}
    /\ Elsewhere({"admin"})

\* BlockExtension.jsx, lines 103-108: the mount effect up to its await
MountEffect ==
    /\ effect = "pending"
    /\ effect' = IF OrderId = <<>> THEN "done" ELSE "await"
    /\ UNCHANGED <<selected, block, fetched, submits, metafield>>
    /\ Only({"admin"})

\* BlockExtension.jsx, lines 108-119: fetchOrderMetafield has come back
FetchResponds ==
    /\ effect = "await"
    /\ \E result \in {Threw} \cup FetchAnswers(metafield) :
         /\ fetched' = <<result>>
         /\ block' =
              IF result = Threw THEN [block EXCEPT !.loading = FALSE]
              ELSE LET existingDob == ExistingDob(result)
                   IN  IF existingDob # <<>> /\ existingDob[1] # ""
                       THEN [block EXCEPT !.isVerified = TRUE,
                                          !.dateOfBirth = existingDob[1],
                                          !.loading = FALSE]
                       ELSE [block EXCEPT !.loading = FALSE]
    /\ effect' = "done"
    /\ UNCHANGED <<selected, submits, metafield>>
    /\ Only({"admin"})

\* BlockExtension.jsx, line 183: onChange of the date field
ChangeDate ==
    /\ effect # "none"
    /\ View = "form"
    /\ \E value \in AdminDates :
         /\ value # block.dateOfBirth
         /\ block' = [block EXCEPT !.dateOfBirth = value]
    /\ UNCHANGED <<selected, effect, fetched, submits, metafield>>
    /\ Only({"admin"})

\* BlockExtension.jsx, line 174: onDismiss of the error banner
DismissError ==
    /\ effect # "none"
    /\ View = "form"
    /\ block.error # <<>>
    /\ block' = [block EXCEPT !.error = <<>>]
    /\ UNCHANGED <<selected, effect, fetched, submits, metafield>>
    /\ Only({"admin"})

\* BlockExtension.jsx, line 190: the button is disabled
Disabled == block.dateOfBirth = "" \/ block.submitting

\* BlockExtension.jsx, lines 141-143: the finally block of handleSubmit
SubmitFinally(b) == [b EXCEPT !.submitting = FALSE]

\* BlockExtension.jsx, lines 124-131: a click on the button, handleSubmit
\* up to its await
HandleSubmit ==
    /\ effect # "none"
    /\ View = "form"
    /\ ~Disabled
    /\ Len(submits) < MaxSubmits
    /\ block.dateOfBirth # "" /\ OrderId # <<>>
    /\ block' = [block EXCEPT !.submitting = TRUE, !.error = <<>>]
    /\ submits' = Append(submits, [pc |-> "await", dateOfBirth |-> block.dateOfBirth,
                                   result |-> <<>>])
    /\ UNCHANGED <<selected, effect, fetched, metafield>>
    /\ Only({"admin"})

\* BlockExtension.jsx, lines 131-143: setOrderMetafields has come back to
\* run k; the platform stores the value when it reports no user errors
SubmitResponds(k) ==
    /\ submits[k].pc = "await"
    /\ \E result \in {Threw} \cup SubmitAnswers :
         /\ submits' = [submits EXCEPT ![k] = [pc |-> "done", dateOfBirth |-> "",
                                               result |-> <<result>>]]
         /\ IF result = Threw
            THEN /\ block' = SubmitFinally([block EXCEPT !.error = <<"errorMessage">>])
                 /\ metafield' \in {metafield, <<submits[k].dateOfBirth>>}
            ELSE IF HasSetUserErrors(result)
            THEN /\ block' = SubmitFinally([block EXCEPT !.error = <<"errorMessage">>])
                 /\ UNCHANGED metafield
            ELSE /\ block' = SubmitFinally([block EXCEPT !.isVerified = TRUE])
                 /\ metafield' = IF result.data # <<>> /\ result.data[1].metafieldsSet # <<>>
                                 THEN <<submits[k].dateOfBirth>>
                                 ELSE metafield
    /\ UNCHANGED <<selected, effect, fetched>>
    /\ Only({"admin"})

AdminNext ==
    \/ MountEffect
    \/ FetchResponds
    \/ ChangeDate
    \/ DismissError
    \/ HandleSubmit
    \/ \E k \in 1..Len(submits) : SubmitResponds(k)

AdminSpec == AdminInit /\ [][AdminNext]_vars

-----------------------------------------------------------------------------
(* C30: the admin date-of-birth block.                                     *)

\* the fetch came back with an existing date_of_birth value
C30_FetchedExisting ==
    /\ fetched # <<>>
    /\ fetched[1] # Threw
    /\ ExistingDob(fetched[1]) \notin {<<>>, <<"">>}

\* a submit came back, with no user errors
C30_SubmitAccepted ==
    \E k \in 1..Len(submits) :
       /\ submits[k].pc = "done"
       /\ submits[k].result[1] # Threw
       /\ ~HasSetUserErrors(submits[k].result[1])

\* the verified state is shown only after one of the two
C30_VerifiedOnlyIf == View = "verified" => C30_FetchedExisting \/ C30_SubmitAccepted

\* the submitting flag is set exactly while a submit is in flight
C30_SubmittingResets ==
    block.submitting <=> \E k \in 1..Len(submits) : submits[k].pc = "await"

(* C30: once the block is mounted and its mount effect has run to its end  *)
(* - the fetch came back with a result, the fetch failed, or there is no   *)
(* selected order - the block is out of the loading state; it shows the    *)
(* verified state only if the fetch returned an existing date_of_birth     *)
(* value or a submit returned no user errors; the submitting flag is false *)
(* again after every submit.                                               *)
C30_LeavesLoading ==
    /\ effect = "done" => View # "loading"
    /\ C30_VerifiedOnlyIf
    /\ C30_SubmittingResets

====
